---- MODULE Spec2Model ----
(***************************************************************************)
(* A model of the colour core of extrajs-types: Fraction, Angle and Color  *)
(* (src/class/Fraction.class.ts, src/class/Angle.class.ts and the Color     *)
(* class that imports them, lines 1231-2369 of                              *)
(* src/class/TreeNodeBreadth.class.ts).                                     *)
(*                                                                         *)
(* Numbers are exact rationals <<n, d>> with d > 0 in lowest terms, so      *)
(* every property below is a statement about exact arithmetic.             *)
(***************************************************************************)
EXTENDS Integers, Sequences, FiniteSets, TLC

VARIABLES input, call, prev

vars == <<input, call, prev>>

(***************************************************************************)
(* Bounds of the model.                                                    *)
(***************************************************************************)
\* channel values are the multiples of 1/GridDen in [0, 1]
GridDen == 2
\* hues are the multiples of 1/HueDen of a turn
HueDen == 12

(***************************************************************************)
(* Exact rational arithmetic.                                              *)
(***************************************************************************)
Abs(n) == IF n < 0 THEN -n ELSE n

RECURSIVE GCD(_, _)
GCD(m, n) == IF n = 0 THEN m ELSE GCD(n, m % n)

Rat(n, d) ==
    LET g == GCD(Abs(n), Abs(d))
        s == IF d < 0 THEN -1 ELSE 1
    IN  <<(s * n) \div g, (s * d) \div g>>

Zero == <<0, 1>>
One  == <<1, 1>>
Int2Rat(k) == <<k, 1>>

RAdd(x, y) == Rat(x[1] * y[2] + y[1] * x[2], x[2] * y[2])
RNeg(x)    == <<-x[1], x[2]>>
RSub(x, y) == RAdd(x, RNeg(y))
RMul(x, y) == Rat(x[1] * y[1], x[2] * y[2])
RDiv(x, y) == Rat(x[1] * y[2], x[2] * y[1])
RLt(x, y)  == x[1] * y[2] < y[1] * x[2]
RLe(x, y)  == x[1] * y[2] <= y[1] * x[2]
RAbs(x)    == <<Abs(x[1]), x[2]>>
RMin(x, y) == IF RLt(y, x) THEN y ELSE x
RMax(x, y) == IF RLt(x, y) THEN y ELSE x

RECURSIVE RPow(_, _)
\* x ** k for a natural exponent k; as in JavaScript, x ** 0 is 1 even for x = 0
RPow(x, k) == IF k = 0 THEN One ELSE RMul(x, RPow(x, k - 1))

\* the integer part of x, rounded toward zero
RTrunc(x) == IF x[1] < 0 THEN -((-x[1]) \div x[2]) ELSE x[1] \div x[2]
\* the integer part of x, rounded down
RFloor(x) == IF x[1] >= 0 \/ (-x[1]) % x[2] = 0
             THEN RTrunc(x) ELSE RTrunc(x) - 1

\* JavaScript's  x % y : the remainder has the sign of the dividend
JsRem(x, y) == RSub(x, RMul(y, Int2Rat(RTrunc(RDiv(x, y)))))

\* floor-modulo: the mathematical  x mod 1  in [0, 1)
Mod1(x) == RSub(x, Int2Rat(RFloor(x)))

(***************************************************************************)
(* Results of calls: a returned value, or a raised error.                  *)
(***************************************************************************)
Return(x) == [ok |-> TRUE,  v |-> x]
Raise(e)  == [ok |-> FALSE, v |-> e]

(***************************************************************************)
(* Fraction (src/class/Fraction.class.ts).  A Fraction is modelled by its  *)
(* numeric value; the constructor is the only place a RangeError starts.   *)
(***************************************************************************)
Fraction_ZERO == Zero
Fraction_FULL == One

\* a constructor that accepts every finite number
Fraction_new_unchecked(f) == Return(f)

\* new Fraction(f): raises unless 0 <= f <= 1
Fraction_new(f) ==
    IF RLt(f, Zero) \/ RLt(One, f) THEN Raise("RangeError") ELSE Return(f)

\* this.plus(addend)
Fraction_plus(this, addend) ==
    IF addend = Zero THEN Return(this)
    ELSE LET returned == RAdd(this, addend)
         IN  IF RLt(returned, Zero) THEN Raise("RangeError")
             ELSE IF RLt(One, returned) THEN Raise("RangeError")
             ELSE Fraction_new(returned)

\* this.plusClamp(addend):  try { plus } catch { FULL }
Fraction_plusClamp(this, addend) ==
    LET r == Fraction_plus(this, addend)
    IN  IF r.ok THEN r.v ELSE Fraction_FULL

\* this.minus(subtrahend)
Fraction_minus(this, subtrahend) == Fraction_plus(this, RNeg(subtrahend))

\* this.minusClamp(subtrahend):  try { minus } catch { ZERO }
Fraction_minusClamp(this, subtrahend) ==
    LET r == Fraction_minus(this, subtrahend)
    IN  IF r.ok THEN r.v ELSE Fraction_ZERO

\* this.conjugate, for a Fraction this (FULL.minus(this) never raises then)
Fraction_conjugate(this) == Fraction_minus(Fraction_FULL, this).v

\* this.equals(frac): exact equality of the values
Fraction_equals(this, frac) == this = frac

\* this.lessThan(pct)
Fraction_lessThan(this, pct) == RLt(this, pct)

\* this.times(multiplier), for Fractions this and multiplier
Fraction_times(this, multiplier) ==
    IF Fraction_equals(multiplier, Fraction_ZERO) THEN Fraction_ZERO
    ELSE IF Fraction_equals(multiplier, Fraction_FULL) THEN this
    ELSE Fraction_new(RMul(this, multiplier)).v

\* Fraction.max(a, b) and Fraction.min(a, b) on Fractions
Fraction_max(a, b) == Fraction_new(RMax(a, b)).v
Fraction_min(a, b) == Fraction_new(RMin(a, b)).v

\* this.clamp(min, max), for Fractions min and max: the bounds are switched
\* when min > max
Fraction_clamp(this, min, max) ==
    IF Fraction_lessThan(min, max) \/ Fraction_equals(min, max)
    THEN Fraction_min(Fraction_max(min, this), max)
    ELSE Fraction_min(Fraction_max(max, this), min)

(***************************************************************************)
(* Angle (src/class/Angle.class.ts).  An Angle is modelled by its value in *)
(* turns; the constructor stores theta / CONVERSION[unit] without reducing *)
(* it modulo one turn.                                                     *)
(***************************************************************************)
CONVERSION_DEG  == 360
CONVERSION_TURN == 1

\* xjs.Math.approx(x, y): |x - y| < Number.EPSILON = 2^-52.  Two distinct
\* rationals whose denominators TLC can multiply (below 2^31) differ by more
\* than 2^-52, so on the values of this model approx is equality.
approx(x, y) == x = y

\* new Angle(theta), unit TURN:  super(theta / CONVERSION[unit])
Angle_new(theta) == RDiv(theta, Int2Rat(CONVERSION_TURN))

Angle_ZERO     == Angle_new(Zero)
Angle_STRAIGHT == Angle_new(Rat(1, 2))

\* this.canon
Angle_canon(this) == Angle_new(Mod1(this))

\* this.equals(angle)
Angle_equals(this, angle) == approx(this, angle)

\* this.lessThan(angle)
Angle_lessThan(this, angle) ==
    IF Angle_equals(this, angle) THEN FALSE ELSE RLt(this, angle)

\* this.plus(addend)
Angle_plus(this, addend) ==
    IF Angle_equals(addend, Angle_ZERO) THEN this
    ELSE Angle_new(RAdd(this, addend))

\* this.convert(AngleUnit.DEG)
Angle_convertDEG(this) == RMul(this, Int2Rat(CONVERSION_DEG))

(***************************************************************************)
(* Color (src/class/TreeNodeBreadth.class.ts, lines 1267-2369).  A Color   *)
(* is the record of its four Fractions; max, min and chroma are derived.   *)
(***************************************************************************)
\* a constructor that clamps each argument into [0, 1] instead of rejecting it
Color_new_clamping(red, green, blue, alpha) ==
    LET cl(x) == RMax(Zero, RMin(One, x))
    IN  Return([red |-> cl(red), green |-> cl(green), blue |-> cl(blue),
                alpha |-> cl(alpha)])

\* new Color(red, green, blue, alpha): each argument goes through new Fraction
Color_new(red, green, blue, alpha) ==
    IF /\ Fraction_new(red).ok
       /\ Fraction_new(green).ok
       /\ Fraction_new(blue).ok
       /\ Fraction_new(alpha).ok
    THEN Return([red |-> red, green |-> green, blue |-> blue, alpha |-> alpha])
    ELSE Raise("RangeError")

\* new Color() with no arguments: alpha = 0
Color_new0 == Color_new(Zero, Zero, Zero, Zero)

Color_MAX(c)    == RMax(c.red, RMax(c.green, c.blue))
Color_MIN(c)    == RMin(c.red, RMin(c.green, c.blue))
Color_CHROMA(c) == RSub(Color_MAX(c), Color_MIN(c))

\* the formula under the key [r]:  ((g - b) / chroma + 6) % 6 * 1/6
hsvHue_ofRed(c) ==
    RMul(JsRem(RAdd(RDiv(RSub(c.green, c.blue), Color_CHROMA(c)), Int2Rat(6)),
               Int2Rat(6)),
         Rat(1, 6))

\* a green formula with the offset of the blue one
hsvHue_ofGreen_offsetOfBlue(c) ==
    RMul(RAdd(RDiv(RSub(c.blue, c.red), Color_CHROMA(c)), Int2Rat(4)), Rat(1, 6))

\* the formula under the key [g]:  ((b - r) / chroma + 2) * 1/6
hsvHue_ofGreen(c) ==
    RMul(RAdd(RDiv(RSub(c.blue, c.red), Color_CHROMA(c)), Int2Rat(2)), Rat(1, 6))

\* the formula under the key [b]:  ((r - g) / chroma + 4) * 1/6
hsvHue_ofBlue(c) ==
    RMul(RAdd(RDiv(RSub(c.red, c.green), Color_CHROMA(c)), Int2Rat(4)), Rat(1, 6))

\* a hue whose green and blue formulas have their offsets 2 and 4 exchanged
hsvHue_offsetsExchanged(c) ==
    IF Color_CHROMA(c) = Zero THEN Angle_new(Zero)
    ELSE LET r  == c.red
             g  == c.green
             b  == c.blue
             ch == Color_CHROMA(c)
             six == Int2Rat(6)
         IN  Angle_new(
               IF b = Color_MAX(c)
               THEN RDiv(RAdd(RDiv(RSub(r, g), ch), Int2Rat(2)), six)
               ELSE IF g = Color_MAX(c)
               THEN RDiv(RAdd(RDiv(RSub(b, r), ch), Int2Rat(4)), six)
               ELSE RDiv(JsRem(RAdd(RDiv(RSub(g, b), ch), six), six), six))

\* a hue whose red formula lacks the remainder by 6
hsvHue_noRemainder(c) ==
    IF Color_CHROMA(c) = Zero THEN Angle_new(Zero)
    ELSE LET r  == c.red
             g  == c.green
             b  == c.blue
             ch == Color_CHROMA(c)
             six == Int2Rat(6)
         IN  Angle_new(
               IF b = Color_MAX(c)
               THEN RDiv(RAdd(RDiv(RSub(r, g), ch), Int2Rat(4)), six)
               ELSE IF g = Color_MAX(c)
               THEN RDiv(RAdd(RDiv(RSub(b, r), ch), Int2Rat(2)), six)
               ELSE RDiv(RAdd(RDiv(RSub(g, b), ch), six), six))

\* get hsvHue.  The three formulas are the values of an object literal keyed
\* by the channel values; a key written twice keeps its last value, so of the
\* channels equal to max the last one in the order red, green, blue decides.
hsvHue(c) ==
    IF Color_CHROMA(c) = Zero THEN Angle_new(Zero)
    ELSE Angle_new(IF c.blue = Color_MAX(c) THEN hsvHue_ofBlue(c)
                   ELSE IF c.green = Color_MAX(c) THEN hsvHue_ofGreen(c)
                   ELSE hsvHue_ofRed(c))

\* get hsvVal
hsvVal(c) == Fraction_new(Color_MAX(c)).v

\* get hsvSat
hsvSat(c) ==
    Fraction_new(IF Color_CHROMA(c) = Zero THEN Zero
                 ELSE RDiv(Color_CHROMA(c), hsvVal(c))).v

\* get hslHue
hslHue(c) == hsvHue(c)

\* get hwbHue
hwbHue(c) == hsvHue(c)

\* get hslLum
hslLum(c) == Fraction_new(RMul(Rat(1, 2), RAdd(Color_MAX(c), Color_MIN(c)))).v

\* get hslSat
hslSat(c) ==
    Fraction_new(IF Color_CHROMA(c) = Zero THEN Zero
                 ELSE RDiv(Color_CHROMA(c),
                           RSub(One, RAbs(RSub(RMul(Int2Rat(2), hslLum(c)), One))))).v

\* the hue-sector part shared by fromHSV and fromHSL: [c, x, 0] permuted by
\* the first sector test that succeeds, [c, x, 0] when none does
HueSector(hue, c, x) ==
    LET in(k) == /\ ~Angle_lessThan(hue, Angle_new(Rat(k, 6)))
                 /\ Angle_lessThan(hue, Angle_new(Rat(k + 1, 6)))
    IN  IF in(0) THEN <<c, x, Zero>>
        ELSE IF in(1) THEN <<x, c, Zero>>
        ELSE IF in(2) THEN <<Zero, c, x>>
        ELSE IF in(3) THEN <<Zero, x, c>>
        ELSE IF in(4) THEN <<x, Zero, c>>
        ELSE IF in(5) THEN <<c, Zero, x>>
        ELSE <<c, x, Zero>>

\* c * (1 - Math.abs(hue.convert(DEG) / 60 % 2 - 1))
HueX(hue, c) ==
    RMul(c, RSub(One, RAbs(RSub(JsRem(RDiv(Angle_convertDEG(hue), Int2Rat(60)),
                                      Int2Rat(2)), One))))

\* Color.fromHSV(hue, sat, val, alpha) on an Angle and three Fractions
fromHSV(hue, sat, val, alpha) ==
    LET c   == RMul(sat, val)
        x   == HueX(hue, c)
        m   == RSub(val, c)
        rgb == HueSector(hue, c, x)
        ch(i) == Fraction_new(RMin(RAdd(rgb[i], m), One))
    IN  IF ch(1).ok /\ ch(2).ok /\ ch(3).ok
        THEN Color_new(ch(1).v, ch(2).v, ch(3).v, alpha)
        ELSE Raise("RangeError")

\* Color.fromHSL(hue, sat, lum, alpha) on an Angle and three Fractions
fromHSL(hue, sat, lum, alpha) ==
    LET c   == RMul(sat, RSub(One, RAbs(RSub(RMul(Int2Rat(2), lum), One))))
        x   == HueX(hue, c)
        m   == RSub(lum, RDiv(c, Int2Rat(2)))
        rgb == HueSector(hue, c, x)
        ch(i) == Fraction_new(RMin(RAdd(rgb[i], m), One))
    IN  IF ch(1).ok /\ ch(2).ok /\ ch(3).ok
        THEN Color_new(ch(1).v, ch(2).v, ch(3).v, alpha)
        ELSE Raise("RangeError")

\* a blend that adds black, not white, to the scaled pure hue
fromHWB_towardBlack(hue, white, black, alpha) ==
    LET pure == fromHSL(hue, One, Rat(1, 2), One)
        ch(c) == Fraction_new(RMin(RAdd(RMul(c, RSub(RSub(One, white), black)),
                                        black), One))
    IN  IF ~pure.ok THEN pure
        ELSE IF ch(pure.v.red).ok /\ ch(pure.v.green).ok /\ ch(pure.v.blue).ok
        THEN Color_new(ch(pure.v.red).v, ch(pure.v.green).v, ch(pure.v.blue).v, alpha)
        ELSE Raise("RangeError")

\* Color.fromHWB(hue, white, black, alpha) on an Angle and three Fractions:
\* each channel c of fromHSL(hue, 1, 0.5) becomes min(c * (1 - w - b) + w, 1)
fromHWB(hue, white, black, alpha) ==
    LET pure == fromHSL(hue, One, Rat(1, 2), One)
        ch(c) == Fraction_new(RMin(RAdd(RMul(c, RSub(RSub(One, white), black)),
                                        white), One))
    IN  IF ~pure.ok THEN pure
        ELSE IF ch(pure.v.red).ok /\ ch(pure.v.green).ok /\ ch(pure.v.blue).ok
        THEN Color_new(ch(pure.v.red).v, ch(pure.v.green).v, ch(pure.v.blue).v, alpha)
        ELSE Raise("RangeError")

\* an inversion that takes the conjugate of alpha as well
invert_withAlpha(this) ==
    Color_new(Fraction_conjugate(this.red), Fraction_conjugate(this.green),
              Fraction_conjugate(this.blue), Fraction_conjugate(this.alpha))

\* this.invert()
invert(this) ==
    Color_new(Fraction_conjugate(this.red), Fraction_conjugate(this.green),
              Fraction_conjugate(this.blue), this.alpha)

\* this.rotate(theta) for an Angle theta
rotate(this, theta) ==
    fromHSV(Angle_plus(hsvHue(this), theta), hsvSat(this), hsvVal(this), this.alpha)

\* this.rotate(theta) for a number theta, a number of degrees
rotateDeg(this, theta) ==
    rotate(this, Angle_new(RDiv(theta, Int2Rat(CONVERSION_DEG))))

\* this.complement()
complement(this) == rotate(this, Angle_STRAIGHT)

\* this.saturate(p, relative)
saturate(this, p, relative) ==
    fromHSL(hslHue(this),
            Fraction_plusClamp(hslSat(this),
                               IF relative THEN RMul(p, hslSat(this)) ELSE p),
            hslLum(this), this.alpha)

\* this.desaturate(p, relative)
desaturate(this, p, relative) == saturate(this, RNeg(p), relative)

\* this.lighten(p, relative)
lighten(this, p, relative) ==
    fromHSL(hslHue(this), hslSat(this),
            Fraction_plusClamp(hslLum(this),
                               IF relative THEN RMul(p, hslLum(this)) ELSE p),
            this.alpha)

\* this.darken(p, relative)
darken(this, p, relative) == lighten(this, RNeg(p), relative)

\* this.negate()
negate(this) ==
    Color_new(this.red, this.green, this.blue, Fraction_conjugate(this.alpha))

\* this.fadeIn(p, relative)
fadeIn(this, p, relative) ==
    Color_new(this.red, this.green, this.blue,
              Fraction_plusClamp(this.alpha,
                                 IF relative THEN RMul(p, this.alpha) ELSE p))

\* this.fadeOut(p, relative)
fadeOut(this, p, relative) == fadeIn(this, RNeg(p), relative)

\* xjs.Math.interpolateArithmetic(a, b, p) = a * (1 - p) + b * p
interpolateArithmetic(a, b, p) == RAdd(RMul(a, RSub(One, p)), RMul(b, p))

\* xjs.Math.interpolateGeometric(a, b, p) ** 2, where interpolateGeometric is
\* a ** (1 - p) * b ** p; the square is a ** (2 - 2p) * b ** (2p), a rational
\* when 2p is an integer (p = 0, 1/2, 1).
interpolateGeometricSquared(a, b, p) ==
    LET k == RMul(Int2Rat(2), p)[1]
    IN  RMul(RPow(a, 2 - k), RPow(b, k))

\* a compound opacity whose weight favors the first alpha instead of the second
compoundOpacityWeighted_swapped(a1, a2, w) ==
    LET f == Fraction_new(interpolateGeometricSquared(Fraction_conjugate(a2),
                                                      Fraction_conjugate(a1), w))
    IN  IF f.ok THEN Return(Fraction_conjugate(f.v)) ELSE f

\* Color._compoundOpacityWeighted(a1, a2, w)
compoundOpacityWeighted(a1, a2, w) ==
    LET f == Fraction_new(interpolateGeometricSquared(Fraction_conjugate(a1),
                                                      Fraction_conjugate(a2), w))
    IN  IF f.ok THEN Return(Fraction_conjugate(f.v)) ELSE f

\* this.mix(color, weight)
mix(this, color, weight) ==
    LET red   == Fraction_new(interpolateArithmetic(this.red,   color.red,   weight))
        green == Fraction_new(interpolateArithmetic(this.green, color.green, weight))
        blue  == Fraction_new(interpolateArithmetic(this.blue,  color.blue,  weight))
        alpha == compoundOpacityWeighted(this.alpha, color.alpha, weight)
    IN  IF red.ok /\ green.ok /\ blue.ok /\ alpha.ok
        THEN Color_new(red.v, green.v, blue.v, alpha.v)
        ELSE Raise("RangeError")

\* blurChannelsWeighted(c1, c2, w) inside blur: the sRGB transfer functions
\* raise to the powers 2.4 and 1/2.4, so the blurred channel is irrational in
\* general; it is kept as the unevaluated term of its three inputs.  Both
\* transfer functions map [0, 1] into [0, 1], so new Fraction accepts it.
blurChannelsWeighted(c1, c2, w) ==
    [fn |-> "blurChannelsWeighted", of |-> <<c1, c2, w>>]

\* this.blur(color, weight)
blur(this, color, weight) ==
    LET alpha == compoundOpacityWeighted(this.alpha, color.alpha, weight)
    IN  IF alpha.ok
        THEN Return([red   |-> blurChannelsWeighted(this.red,   color.red,   weight),
                     green |-> blurChannelsWeighted(this.green, color.green, weight),
                     blue  |-> blurChannelsWeighted(this.blue,  color.blue,  weight),
                     alpha |-> alpha.v])
        ELSE Raise("RangeError")

\* xjs.Math.meanArithmetic(...nums): the sum of the numbers over their count
RECURSIVE SumOf(_)
SumOf(nums) == IF nums = <<>> THEN Zero ELSE RAdd(nums[1], SumOf(Tail(nums)))
meanArithmetic(nums) == RDiv(SumOf(nums), Int2Rat(Len(nums)))

\* alphas.map((a) => a.conjugate).reduce((a, b) => a.times(b)), for one or
\* more alphas: a left fold without an initial value
RECURSIVE TimesOfConjugates(_)
TimesOfConjugates(alphas) ==
    IF Len(alphas) = 1 THEN Fraction_conjugate(alphas[1])
    ELSE Fraction_times(TimesOfConjugates(SubSeq(alphas, 1, Len(alphas) - 1)),
                        Fraction_conjugate(alphas[Len(alphas)]))

\* a compound opacity that is the arithmetic mean of the alphas
compoundOpacity_mean(alphas) == Fraction_new(meanArithmetic(alphas)).v

\* a compound opacity that lacks the final conjugate
compoundOpacity_notConjugated(alphas) == TimesOfConjugates(alphas)

\* Color._compoundOpacity(...alphas)
compoundOpacity(alphas) == Fraction_conjugate(TimesOfConjugates(alphas))

\* the channel of every color of a list
ChannelsOf(colors, ch) == [i \in 1..Len(colors) |-> colors[i][ch]]

\* static Color.mix(...colors), for one or more colors
Color_mix(colors) ==
    LET red   == Fraction_new(meanArithmetic(ChannelsOf(colors, "red")))
        green == Fraction_new(meanArithmetic(ChannelsOf(colors, "green")))
        blue  == Fraction_new(meanArithmetic(ChannelsOf(colors, "blue")))
    IN  IF red.ok /\ green.ok /\ blue.ok
        THEN Color_new(red.v, green.v, blue.v,
                       compoundOpacity(ChannelsOf(colors, "alpha")))
        ELSE Raise("RangeError")

\* blurChannels(...comps) inside the static blur: as blurChannelsWeighted, the
\* unevaluated term of its inputs, a value in [0, 1]
blurChannels(comps) == [fn |-> "blurChannels", of |-> comps]

\* static Color.blur(...colors), for one or more colors
Color_blur(colors) ==
    Return([red   |-> blurChannels(ChannelsOf(colors, "red")),
            green |-> blurChannels(ChannelsOf(colors, "green")),
            blue  |-> blurChannels(ChannelsOf(colors, "blue")),
            alpha |-> compoundOpacity(ChannelsOf(colors, "alpha"))])

\* an equality that compares the four channels only
equals_channelsOnly(this, color) ==
    /\ Fraction_equals(this.red,   color.red)
    /\ Fraction_equals(this.green, color.green)
    /\ Fraction_equals(this.blue,  color.blue)
    /\ Fraction_equals(this.alpha, color.alpha)

\* this.equals(color)
equals(this, color) ==
    \/ Fraction_equals(this.alpha, Zero) /\ Fraction_equals(color.alpha, Zero)
    \/ /\ Fraction_equals(this.red,   color.red)
       /\ Fraction_equals(this.green, color.green)
       /\ Fraction_equals(this.blue,  color.blue)
       /\ Fraction_equals(this.alpha, color.alpha)

(***************************************************************************)
(* Strings.  A string is the sequence of its characters, each a            *)
(* one-character string; the regular expressions of the source are         *)
(* matched by computing the set of positions a pattern can end at.          *)
(***************************************************************************)
HexDigits == <<"0", "1", "2", "3", "4", "5", "6", "7", "8", "9",
               "a", "b", "c", "d", "e", "f">>
UpperHex  == <<"0", "1", "2", "3", "4", "5", "6", "7", "8", "9",
               "A", "B", "C", "D", "E", "F">>

\* \d
IsDigit(ch) == \E i \in 1..10 : HexDigits[i] = ch
\* [\da-f] under the i flag
IsHexDigit(ch) == \E i \in 1..16 : HexDigits[i] = ch \/ UpperHex[i] = ch
\* \s, as far as the characters used here go
IsSpace(ch) == ch \in {" ", "\t", "\n"}

DigitValue(ch) == (CHOOSE i \in 1..16 : HexDigits[i] = ch \/ UpperHex[i] = ch) - 1

\* parseInt(digits, radix) on a string of digits of that radix
RECURSIVE parseInt(_, _)
parseInt(digits, radix) ==
    IF digits = <<>> THEN 0
    ELSE radix * parseInt(SubSeq(digits, 1, Len(digits) - 1), radix)
         + DigitValue(digits[Len(digits)])

\* String.prototype.includes for a one-character needle
includes(str, ch) == \E i \in 1..Len(str) : str[i] = ch

\* String.prototype.split for a one-character separator
RECURSIVE split(_, _)
split(str, sep) ==
    IF ~includes(str, sep) THEN <<str>>
    ELSE LET i == CHOOSE i \in 1..Len(str) :
                      str[i] = sep /\ \A k \in 1..(i - 1) : str[k] # sep
         IN  <<SubSeq(str, 1, i - 1)>> \o split(SubSeq(str, i + 1, Len(str)), sep)

\* String.prototype.trim
RECURSIVE trim(_)
trim(str) ==
    IF str = <<>> THEN str
    ELSE IF IsSpace(str[1]) THEN trim(Tail(str))
    ELSE IF IsSpace(str[Len(str)]) THEN trim(SubSeq(str, 1, Len(str) - 1))
    ELSE str

\* Math.round
MathRound(x) == RFloor(RAdd(x, Rat(1, 2)))

\* Fraction.of (Fraction.class.ts)
Fraction_of(this, x) == RMul(this, Int2Rat(x))

\* leadingZero(n, 16) of Color.toString writing the digits without padding
leadingZero_unpadded(n) ==
    IF n < 16 THEN <<HexDigits[n + 1]>>
    ELSE <<HexDigits[(n \div 16) + 1], HexDigits[(n % 16) + 1]>>

\* leadingZero(n, 16) of Color.toString, for 0 <= n <= 255: the last two
\* characters of "0" followed by the base-16 digits of n
leadingZero(n) ==
    LET digits == IF n < 16 THEN <<HexDigits[n + 1]>>
                  ELSE <<HexDigits[(n \div 16) + 1], HexDigits[(n % 16) + 1]>>
        padded == <<"0">> \o digits
    IN  SubSeq(padded, Len(padded) - 1, Len(padded))

\* Color.toString() in the default space, ColorSpace.HEX
toString(this) ==
    <<"#">> \o leadingZero(MathRound(Fraction_of(this.red, 255)))
            \o leadingZero(MathRound(Fraction_of(this.green, 255)))
            \o leadingZero(MathRound(Fraction_of(this.blue, 255)))
            \o (IF Fraction_lessThan(this.alpha, One)
                THEN leadingZero(MathRound(Fraction_of(this.alpha, 255)))
                ELSE <<>>)

\* the positions after a literal word starting at position i
Lit(s, i, w) ==
    IF i + Len(w) - 1 <= Len(s) /\ SubSeq(s, i, i + Len(w) - 1) = w
    THEN {i + Len(w)} ELSE {}

\* \d+
Digits(s, i) == {j \in (i + 1)..(Len(s) + 1) : \A k \in i..(j - 1) : IsDigit(s[k])}
\* \s*
Spaces0(s, i) == {j \in i..(Len(s) + 1) : \A k \in i..(j - 1) : IsSpace(s[k])}
\* \s+
Spaces1(s, i) == Spaces0(s, i) \ {i}

\* xjs_Number_REGEXP without its anchors: -?(?:\d+(?:\.\d+)?|\.\d+)
xjs_Number(s, i) ==
    UNION { Digits(s, j)
            \cup UNION {UNION {Digits(s, m) : m \in Lit(s, k, <<".">>)} : k \in Digits(s, j)}
            \cup UNION {Digits(s, m) : m \in Lit(s, j, <<".">>)}
          : j \in {i} \cup Lit(s, i, <<"-">>) }

xjs_Number_REGEXP_test(s) == (Len(s) + 1) \in xjs_Number(s, 1)

\* a percentage pattern whose percent sign is optional: NUMBER%?
Percentage_pattern_optionalSign(s, i) ==
    xjs_Number(s, i) \cup UNION {Lit(s, j, <<"%">>) : j \in xjs_Number(s, i)}

\* Percentage.REGEXP without its anchors: NUMBER%
Percentage_pattern(s, i) == UNION {Lit(s, j, <<"%">>) : j \in xjs_Number(s, i)}

Percentage_REGEXP_test(s) == (Len(s) + 1) \in Percentage_pattern(s, 1)

\* Color._NUMBER_OR_PERCENTAGE: NUMBER%?
NUMBER_OR_PERCENTAGE(s, i) == xjs_Number(s, i) \cup Percentage_pattern(s, i)

AngleUnits == {<<"d", "e", "g">>, <<"g", "r", "a", "d">>, <<"r", "a", "d">>,
               <<"t", "u", "r", "n">>}

\* Angle.REGEXP without its anchors: NUMBER(?:deg|grad|rad|turn)
Angle_pattern(s, i) ==
    UNION {UNION {Lit(s, j, u) : u \in AngleUnits} : j \in xjs_Number(s, i)}

Angle_REGEXP_test(s) == (Len(s) + 1) \in Angle_pattern(s, 1)

\* Color._NUMBER_OR_ANGLE: NUMBER(?:deg|grad|rad|turn)?
NUMBER_OR_ANGLE(s, i) == xjs_Number(s, i) \cup Angle_pattern(s, i)

\* the value of the decimal digits whole.frac
DecimalValue(whole, frac) ==
    RAdd(Int2Rat(parseInt(whole, 10)),
         RDiv(Int2Rat(parseInt(frac, 10)), RPow(Int2Rat(10), Len(frac))))

\* the value of the pieces of an unsigned number around its decimal point
DecimalValueOfParts(parts) ==
    DecimalValue(parts[1], IF Len(parts) > 1 THEN parts[2] ELSE <<>>)

Signed(neg, v) == IF neg THEN RNeg(v) ELSE v

\* the value of a string that matches xjs_Number_REGEXP, as unary + reads it
NumberOf(s) ==
    Signed(s[1] = "-", DecimalValueOfParts(split(IF s[1] = "-" THEN Tail(s) ELSE s, ".")))

LastOf(ends) == CHOOSE j \in ends : \A k \in ends : k <= j

\* str.match(NUMBER)[0] for a string that starts with a number: the greedy
\* match, which is the longest one
NumberPrefix(str) == SubSeq(str, 1, LastOf(xjs_Number(str, 1)) - 1)

\* Percentage.fromString (Percentage.class.ts)
Percentage_fromString(str) ==
    IF ~Percentage_REGEXP_test(str) THEN Raise("RangeError")
    ELSE Return(RDiv(NumberOf(NumberPrefix(str)), Int2Rat(100)))

CONVERSION_GRAD == 400

\* numeric_part / Angle.CONVERSION[AngleUnit.RAD]: the quotient by 2 * Math.PI
\* is zero for zero and an irrational number otherwise, kept as a term
RadiansToTurns(n) == IF n = Zero THEN Zero ELSE [irrational |-> "rad", of |-> n]

\* the position of the leftmost match of deg|grad|rad|turn
UnitAt(str) ==
    CHOOSE i \in 1..Len(str) :
        /\ \E u \in AngleUnits : Lit(str, i, u) # {}
        /\ \A k \in 1..(i - 1) : \A u \in AngleUnits : Lit(str, k, u) = {}

UnitPart(str, at) == CHOOSE u \in AngleUnits : Lit(str, at, u) # {}

\* numeric_part / Angle.CONVERSION[unit_part]
TurnsOf(numeric_part, unit_part) ==
    IF unit_part = <<"d", "e", "g">> THEN RDiv(numeric_part, Int2Rat(CONVERSION_DEG))
    ELSE IF unit_part = <<"g", "r", "a", "d">> THEN RDiv(numeric_part, Int2Rat(CONVERSION_GRAD))
    ELSE IF unit_part = <<"r", "a", "d">> THEN RadiansToTurns(numeric_part)
    ELSE RDiv(numeric_part, Int2Rat(CONVERSION_TURN))

\* Angle.fromString (Angle.class.ts): the unit is the leftmost match of
\* deg|grad|rad|turn, the number is the leading number of the string
Angle_fromString(str) ==
    IF ~Angle_REGEXP_test(str) THEN Raise("RangeError")
    ELSE Return(Angle_new(TurnsOf(NumberOf(NumberPrefix(str)), UnitPart(str, UnitAt(str)))))

\* Color.fromCMYK(cyan, magenta, yellow, black, alpha) on five Fractions
fromCMYK(cyan, magenta, yellow, black, alpha) ==
    LET ch(c) == Fraction_new(RAdd(Fraction_times(c, Fraction_conjugate(black)), black))
    IN  IF ch(cyan).ok /\ ch(magenta).ok /\ ch(yellow).ok
        THEN Color_new(Fraction_conjugate(ch(cyan).v), Fraction_conjugate(ch(magenta).v),
                       Fraction_conjugate(ch(yellow).v), alpha)
        ELSE Raise("RangeError")

\* Color.REGEXP_HEX: # and 3, 4, 6 or 8 hexadecimal digits of either case
REGEXP_HEX_test(str) ==
    /\ Len(str) \in {4, 5, 7, 9}
    /\ str[1] = "#"
    /\ \A i \in 2..Len(str) : IsHexDigit(str[i])

\* the pieces the CSS-function expressions are assembled from
Item(s, i, kind) ==
    CASE kind = "number"               -> xjs_Number(s, i)
      [] kind = "percentage"           -> Percentage_pattern(s, i)
      [] kind = "number_or_percentage" -> NUMBER_OR_PERCENTAGE(s, i)
      [] kind = "number_or_angle"      -> NUMBER_OR_ANGLE(s, i)

\* name\(\s*
Open(s, name) == UNION {Spaces0(s, k) : k \in Lit(s, 1, name \o <<"(">>)}
\* \s*\)$ after one of the positions S
Close(s, S) == \E j \in S : \E k \in Spaces0(s, j) : Lit(s, k, <<")">>) = {Len(s) + 1}
\* \s*,\s*ITEM
AfterComma(s, i, kind) ==
    UNION {UNION {UNION {Item(s, m, kind) : m \in Spaces0(s, k)}
                  : k \in Lit(s, j, <<",">>)} : j \in Spaces0(s, i)}
\* \s+ITEM
AfterSpace(s, i, kind) == UNION {Item(s, j, kind) : j \in Spaces1(s, i)}
\* (?:\s*/\s*NUMBER_OR_PERCENTAGE)? after one of the positions S
OptSlash(s, S) ==
    S \cup UNION {UNION {UNION {UNION {NUMBER_OR_PERCENTAGE(s, m) : m \in Spaces0(s, k)}
                                : k \in Lit(s, j, <<"/">>)} : j \in Spaces0(s, i)}
                  : i \in S}

\* (?:\s*,\s*ITEM){n} after one of the positions S
RECURSIVE Commas(_, _, _, _)
Commas(s, S, kind, n) ==
    IF n = 0 THEN S
    ELSE Commas(s, UNION {AfterComma(s, j, kind) : j \in S}, kind, n - 1)

\* (?:\s+ITEM){n} after one of the positions S
RECURSIVE Blanks(_, _, _, _)
Blanks(s, S, kind, n) ==
    IF n = 0 THEN S
    ELSE Blanks(s, UNION {AfterSpace(s, j, kind) : j \in S}, kind, n - 1)

\* ITEM right after name\(\s*
First(s, name, kind) == UNION {Item(s, j, kind) : j \in Open(s, name)}

REGEXP_RGB_LEGACY_test(s) ==
    LET first == First(s, <<"r", "g", "b">>, "number_or_percentage")
    IN  Close(s, Commas(s, first, "number_or_percentage", 2)
                 \cup Commas(s, first, "number_or_percentage", 3))

REGEXP_RGBA_LEGACY_test(s) ==
    Close(s, Commas(s, First(s, <<"r", "g", "b", "a">>, "number_or_percentage"),
                    "number_or_percentage", 3))

REGEXP_RGB_test(s) ==
    Close(s, OptSlash(s, Blanks(s, First(s, <<"r", "g", "b">>, "number"), "number", 2)
                         \cup Blanks(s, First(s, <<"r", "g", "b">>, "percentage"), "percentage", 2)))

REGEXP_CMYK_LEGACY_test(s) ==
    LET first == First(s, <<"c", "m", "y", "k">>, "number_or_percentage")
    IN  Close(s, Commas(s, first, "number_or_percentage", 3)
                 \cup Commas(s, first, "number_or_percentage", 4))

REGEXP_CMYKA_LEGACY_test(s) ==
    Close(s, Commas(s, First(s, <<"c", "m", "y", "k", "a">>, "number_or_percentage"),
                    "number_or_percentage", 4))

REGEXP_CMYK_test(s) ==
    Close(s, OptSlash(s, Blanks(s, First(s, <<"c", "m", "y", "k">>, "number"), "number", 3)
                         \cup Blanks(s, First(s, <<"c", "m", "y", "k">>, "percentage"), "percentage", 3)))

\* hsv|hsl|hwb
HueNames == {<<"h", "s", "v">>, <<"h", "s", "l">>, <<"h", "w", "b">>}

REGEXP_HUE_LEGACY_test(s) ==
    \E name \in HueNames :
        LET two == Commas(s, First(s, name, "number_or_angle"), "percentage", 2)
        IN  Close(s, two \cup Commas(s, two, "number_or_percentage", 1))

REGEXP_HUEA_LEGACY_test(s) ==
    \E name \in HueNames :
        Close(s, Commas(s, Commas(s, First(s, name \o <<"a">>, "number_or_angle"),
                                  "percentage", 2),
                        "number_or_percentage", 1))

REGEXP_HUE_test(s) ==
    \E name \in HueNames :
        Close(s, OptSlash(s, Blanks(s, First(s, name, "number_or_angle"), "percentage", 2)))

IsNonEmpty(s) == s # <<>>

\* the channels of a CSS function string: the argument is split on commas,
\* or on spaces with the part after a slash appended, and each piece trimmed
channelsOf(str) ==
    LET inner  == split(str, "(")[2]
        cssarg == SubSeq(inner, 1, Len(inner) - 1)
        pieces == IF includes(cssarg, ",") THEN split(cssarg, ",")
                  ELSE SelectSeq(split(split(cssarg, "/")[1], " "), IsNonEmpty)
        all    == IF includes(cssarg, "/") THEN Append(pieces, split(cssarg, "/")[2])
                  ELSE pieces
    IN  [i \in 1..Len(all) |-> trim(all[i])]

\* channels[k - 1]; a missing channel is falsy like the empty string
ChannelAt(channels, k) == IF k <= Len(channels) THEN channels[k] ELSE <<>>

\* new Fraction(n) on the outcome n of reading a number
FractionOfResult(n) == IF n.ok THEN Fraction_new(n.v) ELSE n

\* new Fraction(xjs_Number_REGEXP.test(ch) ? +ch / scale : Percentage.fromString(ch))
ChannelFraction(ch, scale) ==
    FractionOfResult(IF xjs_Number_REGEXP_test(ch)
                     THEN Return(RDiv(NumberOf(ch), Int2Rat(scale)))
                     ELSE Percentage_fromString(ch))

\* the optional alpha channel; a missing one leaves the default alpha = 1
AlphaFraction(ch) == IF ch = <<>> THEN Return(One) ELSE ChannelFraction(ch, 1)

\* the named-color table, color-names.json
NAMES == (<<"b", "l", "a", "c", "k">> :> <<"#", "0", "0", "0", "0", "0", "0">>) @@ (<<"p", "a", "l", "e", "g", "r", "e", "e", "n">> :> <<"#", "9", "8", "f", "b", "9", "8">>)

\* names every object inherits from Object.prototype
ObjectPrototypeKeys == {<<"c", "o", "n", "s", "t", "r", "u", "c", "t", "o", "r">>, <<"t", "o", "S", "t", "r", "i", "n", "g">>, <<"v", "a", "l", "u", "e", "O", "f">>, <<"_", "_", "p", "r", "o", "t", "o", "_", "_">>,
                        <<"h", "a", "s", "O", "w", "n", "P", "r", "o", "p", "e", "r", "t", "y">>}

\* NAMES[str] || null
NamesLookup(str) ==
    IF str \in DOMAIN NAMES THEN [type |-> "string", v |-> NAMES[str]]
    ELSE IF str \in ObjectPrototypeKeys THEN [type |-> "object", v |-> <<>>]
    ELSE [type |-> "null", v |-> <<>>]

\* new Color(red, green, blue, alpha) once the four channels have been read
ColorOfChannels(red, green, blue, alpha) ==
    IF red.ok /\ green.ok /\ blue.ok /\ alpha.ok
    THEN Color_new(red.v, green.v, blue.v, alpha.v)
    ELSE Raise("RangeError")

\* the rgb branch of Color.fromString
fromString_rgb(channels) ==
    ColorOfChannels(ChannelFraction(ChannelAt(channels, 1), 255),
                    ChannelFraction(ChannelAt(channels, 2), 255),
                    ChannelFraction(ChannelAt(channels, 3), 255),
                    AlphaFraction(ChannelAt(channels, 4)))

\* Color.fromCMYK(cyan, magenta, yellow, black, alpha) once the five channels
\* have been read
CmykOfChannels(cyan, magenta, yellow, black, alpha) ==
    IF cyan.ok /\ magenta.ok /\ yellow.ok /\ black.ok /\ alpha.ok
    THEN fromCMYK(cyan.v, magenta.v, yellow.v, black.v, alpha.v)
    ELSE Raise("RangeError")

\* the cmyk branch of Color.fromString
fromString_cmyk(channels) ==
    CmykOfChannels(ChannelFraction(ChannelAt(channels, 1), 1),
                   ChannelFraction(ChannelAt(channels, 2), 1),
                   ChannelFraction(ChannelAt(channels, 3), 1),
                   ChannelFraction(ChannelAt(channels, 4), 1),
                   AlphaFraction(ChannelAt(channels, 5)))

\* xjs.Object.switch(space, {hsv, hsva, hsl, hsla, hwb, hwba})(hue, p1, p2, alpha)
\* once the four channels have been read
HueOfChannels(space, hue, p1, p2, alpha) ==
    IF ~(hue.ok /\ p1.ok /\ p2.ok /\ alpha.ok) THEN Raise("RangeError")
    ELSE IF space \in {<<"h", "s", "v">>, <<"h", "s", "v", "a">>} THEN fromHSV(hue.v, p1.v, p2.v, alpha.v)
    ELSE IF space \in {<<"h", "s", "l">>, <<"h", "s", "l", "a">>} THEN fromHSL(hue.v, p1.v, p2.v, alpha.v)
    ELSE fromHWB(hue.v, p1.v, p2.v, alpha.v)

\* channels[0], with deg appended when it is a bare number
HueChannel(first) == IF xjs_Number_REGEXP_test(first) THEN first \o <<"d", "e", "g">> ELSE first

\* the hsv/hsl/hwb branch of Color.fromString
fromString_hue(space, channels) ==
    HueOfChannels(space,
                  Angle_fromString(HueChannel(ChannelAt(channels, 1))),
                  FractionOfResult(Percentage_fromString(ChannelAt(channels, 2))),
                  FractionOfResult(Percentage_fromString(ChannelAt(channels, 3))),
                  AlphaFraction(ChannelAt(channels, 4)))

\* Color.fromString(str)
RECURSIVE fromString(_)
fromString(str) ==
    IF str = <<>> THEN Color_new0
    ELSE IF REGEXP_HEX_test(str) THEN
        IF Len(str) \in {4, 5}
        THEN LET a == IF Len(str) = 5 THEN <<str[5], str[5]>> ELSE <<>>
             IN  fromString(<<"#", str[2], str[2], str[3], str[3], str[4], str[4]>> \o a)
        ELSE LET red   == Rat(parseInt(SubSeq(str, 2, 3), 16), 255)
                 green == Rat(parseInt(SubSeq(str, 4, 5), 16), 255)
                 blue  == Rat(parseInt(SubSeq(str, 6, 7), 16), 255)
                 alpha == IF Len(str) = 9 THEN Rat(parseInt(SubSeq(str, 8, 9), 16), 255)
                          ELSE One
             IN  Color_new(red, green, blue, alpha)
    ELSE IF \/ REGEXP_RGB_LEGACY_test(str) \/ REGEXP_RGBA_LEGACY_test(str)
            \/ REGEXP_RGB_test(str)
         THEN fromString_rgb(channelsOf(str))
    ELSE IF \/ REGEXP_CMYK_LEGACY_test(str) \/ REGEXP_CMYKA_LEGACY_test(str)
            \/ REGEXP_CMYK_test(str)
         THEN fromString_cmyk(channelsOf(str))
    ELSE IF \/ REGEXP_HUE_LEGACY_test(str) \/ REGEXP_HUEA_LEGACY_test(str)
            \/ REGEXP_HUE_test(str)
         THEN fromString_hue(split(str, "(")[1], channelsOf(str))
    ELSE IF ~includes(str, "(") THEN
        \* a value that is not a string has no includes method: the recursive
        \* call on it ends in a TypeError
        LET returned == NamesLookup(str)
        IN  IF returned.type = "null" THEN Raise("ReferenceError")
            ELSE IF returned.type = "object" THEN Raise("TypeError")
            ELSE fromString(returned.v)
    ELSE Raise("RangeError")

(***************************************************************************)
(* Angle in any unit.  Angle.CONVERSION[RAD] is 2 * Math.PI, which no      *)
(* rational equals, so a number here is q * pi^e for a rational q and an   *)
(* integer e; products and quotients of such numbers are exact.            *)
(***************************************************************************)
PiNum(q, e) == [q |-> q, pi |-> IF q = Zero THEN 0 ELSE e]
PiMul(x, y) == PiNum(RMul(x.q, y.q), x.pi + y.pi)
PiDiv(x, y) == PiNum(RDiv(x.q, y.q), x.pi - y.pi)

\* Math.PI
MathPI == PiNum(One, 1)

\* the members of AngleUnit
AngleUnit == {"DEG", "GRAD", "RAD", "TURN"}

\* Angle.CONVERSION[unit]: the number of units in one full circle
CONVERSION(unit) ==
    CASE unit = "DEG"  -> PiNum(Int2Rat(CONVERSION_DEG), 0)
      [] unit = "GRAD" -> PiNum(Int2Rat(CONVERSION_GRAD), 0)
      [] unit = "RAD"  -> PiMul(PiNum(Int2Rat(2), 0), MathPI)
      [] unit = "TURN" -> PiNum(Int2Rat(CONVERSION_TURN), 0)

\* a constructor that reduces its value modulo one turn
Angle_newIn_canon(theta, unit) ==
    PiNum(Mod1(PiDiv(theta, CONVERSION(unit)).q), PiDiv(theta, CONVERSION(unit)).pi)

\* new Angle(theta, unit):  super(theta / Angle.CONVERSION[unit])
Angle_newIn(theta, unit) == PiDiv(theta, CONVERSION(unit))

\* a convert that reads the canon of the Angle
Angle_convert_canon(this, unit) == PiMul(PiNum(Mod1(this.q), this.pi), CONVERSION(unit))

\* this.convert(unit)
Angle_convert(this, unit) == PiMul(this, CONVERSION(unit))

\* this.toString(radix, unit): the digits that Number.prototype.toString
\* writes for this.convert(unit) in the radix, followed by the name of the
\* unit in lower case
Angle_toString(this, radix, unit) ==
    [number |-> Angle_convert(this, unit),
     radix  |-> radix,
     suffix |-> CASE unit = "DEG" -> "deg" [] unit = "GRAD" -> "grad"
                  [] unit = "RAD" -> "rad" [] unit = "TURN" -> "turn"]

\* a scale that reduces the product into [0, 1) turn
Angle_scale_canon(this, scalar) ==
    Angle_newIn_canon(PiMul(this, PiNum(scalar, 0)), "TURN")

\* this.scale(scalar)
Angle_scale(this, scalar) == Angle_newIn(PiMul(this, PiNum(scalar, 0)), "TURN")

\* this.minus(subtrahend) on an Angle:  this.plus(-subtrahend), where the
\* number -subtrahend is wrapped by new Angle
Angle_minus(this, subtrahend) == Angle_plus(this, Angle_new(RNeg(subtrahend)))

(***************************************************************************)
(* The state machine.  The library's values are immutable, so the state is *)
(* the input a test starts from (a Color, or the numbers handed to a       *)
(* constructor or factory), the most recent call (its operation, receiver, *)
(* arguments and result) and, when the receiver of that call was the       *)
(* result of the call before it, that earlier call.                        *)
(***************************************************************************)
Grid    == {Rat(k, GridDen) : k \in 0..GridDen}
\* numbers around [0, 1], one grid step beyond either end
ExtGrid == {Rat(k, GridDen) : k \in (-1)..(GridDen + 1)}
Colors  == {Color_new(r, g, b, a).v : r \in Grid, g \in Grid, b \in Grid, a \in Grid}
\* the colors passed as the argument of mix, blur and equals
OtherColors == {c \in Colors : c.green = c.blue}
Hues    == {Rat(k, HueDen) : k \in 0..(HueDen - 1)}
Turns   == {-1, 0, 1, 2}
Angles  == {Rat(k, HueDen) : k \in (-HueDen)..(2 * HueDen)}
Degrees == {Int2Rat(-90), Int2Rat(120), Int2Rat(540)}
Weights == {Zero, Rat(1, 2), One}
\* the second and third colors of a static mix or blur of three
ThirdColors == {c \in OtherColors : c.red = c.green}
\* the argument lists of the static mix and blur whose first color is c
ColorLists(c) ==
    {<<c>>} \cup {<<c, o>> : o \in OtherColors}
            \cup {<<c, o, t>> : o \in ThirdColors, t \in ThirdColors}

None == Color_new0.v

Call(op, recv, other, args, rel, res) ==
    [op |-> op, recv |-> recv, other |-> other, args |-> args, rel |-> rel, res |-> res]

NullCall == Call("none", None, None, <<>>, FALSE, Return(None))

ColorInputs  == {[kind |-> "color", color |-> c, nums |-> <<>>] : c \in Colors}
NumberInputs == {[kind |-> "numbers", color |-> None, nums |-> <<r, g, b, a>>] :
                    r \in ExtGrid, g \in ExtGrid, b \in ExtGrid, a \in ExtGrid}

\* channel values k / 255 for the hex round trip
Bytes == {0, 1, 15, 16, 128, 254, 255}
ByteColors == {Color_new(Rat(r, 255), Rat(g, 255), Rat(b, 255), Rat(a, 255)).v :
                  r \in Bytes, g \in Bytes, b \in Bytes, a \in Bytes}

\* strings handed to Color.fromString: hex forms, names, and function forms
\* that are well-formed, malformed, or of an unknown function
FixedStrings == {
    <<>>, <<"#", "e", "4", "f">>, <<"#", "6", "a", "4", "3">>, <<"#", "9", "8", "F", "B", "9", "8">>, <<"#", "0", "0", "0", "0", "0", "0">>, <<"#", "1", "2">>, <<"#", "g", "g", "g">>,
    <<"#", "1", "2", "3", "4", "5">>, <<"b", "l", "a", "c", "k">>, <<"p", "a", "l", "e", "g", "r", "e", "e", "n">>, <<"b", "l", "a", "n", "c", "o">>, <<"B", "l", "a", "c", "k">>, <<"P", "a", "l", "e", "G", "r", "e", "e", "n">>,
    <<"b", "l", "a", "c", "k", " ">>, <<"c", "o", "n", "s", "t", "r", "u", "c", "t", "o", "r">>, <<"t", "o", "S", "t", "r", "i", "n", "g">>, <<"v", "a", "l", "u", "e", "O", "f">>, <<"_", "_", "p", "r", "o", "t", "o", "_", "_">>,
    <<"h", "a", "s", "O", "w", "n", "P", "r", "o", "p", "e", "r", "t", "y">>,
    <<"h", "s", "l", "(", "0", ",", "0", ",", "0", ")">>, <<"h", "w", "b", "(", "0", ",", "0", ",", "0", ")">>, <<"h", "s", "v", "(", "0", ",", "0", ",", "0", ")">>, <<"h", "s", "l", "(", "1", "r", "a", "d", ",", "0", ",", "0", ")">>,
    <<"h", "s", "l", "(", "1", "r", "a", "d", " ", "0", "%", " ", "0", ")">>, <<"h", "s", "l", "a", "(", "0", ",", "0", ",", "0", ",", "1", ")">>, <<"h", "w", "b", "a", "(", "9", "0", "d", "e", "g", ",", " ", "0", ",", " ", "5", "0", "%", ",", " ", ".", "5", ")">>,
    <<"h", "s", "v", "(", " ", "0", " ", ",", " ", "0", " ", ",", " ", "0", " ", ")">>, <<"h", "s", "l", "(", "0", " ", "0", " ", "0", " ", "/", " ", "1", ")">>,
    <<"h", "s", "l", "(", "0", ",", "0", "%", ",", "0", "%">>, <<"h", "s", "l", "(", "0", ";", "0", "%", ";", "0", "%", ")">>, <<"h", "s", "l", "(", "0", ",", "0", "%", ")">>, <<"h", "s", "l", "(", ")">>, <<"f", "o", "o", "(", "1", ")">>,
    <<"r", "g", "b", "(", "2", "0", "%", ",", " ", "3", "0", ",", " ", "4", "0", "%", ",", " ", ".", "5", ")">>, <<"r", "g", "b", "(", "2", "5", "5", " ", "0", " ", "0", ")">>, <<"r", "g", "b", "(", "0", "%", " ", "5", "0", "%", " ", "1", "0", "0", "%", " ", "/", " ", "5", "0", "%", ")">>,
    <<"r", "g", "b", "a", "(", "0", ",", "5", "1", ",", "2", "5", "5", ",", "0", ")">>, <<"r", "g", "b", "(", "0", ",", "0", ")">>, <<"r", "g", "b", "(", "2", "5", "6", ",", "0", ",", "0", ")">>, <<"r", "g", "b", "(", "0", " ", "5", "0", "%", " ", "0", ")">>,
    <<"c", "m", "y", "k", "(", "0", ",", "0", ",", "0", ",", "1", ")">>, <<"c", "m", "y", "k", "(", ".", "5", " ", "0", " ", "0", " ", "0", " ", "/", " ", ".", "5", ")">>, <<"c", "m", "y", "k", "a", "(", "0", "%", ",", "5", "0", "%", ",", "0", "%", ",", "0", "%", ",", "1", ")">>,
    <<"c", "m", "y", "k", "(", "0", ",", "0", ",", "0", ")">>, <<"c", "m", "y", "k", "(", "2", ",", "0", ",", "0", ",", "0", ")">> }

HueFunctions == {<<"h", "s", "v">>, <<"h", "s", "l">>, <<"h", "w", "b">>, <<"h", "s", "l", "a">>}
HueForms     == {<<"0">>, <<"1", "2", "0", "d", "e", "g">>, <<".", "5", "t", "u", "r", "n">>, <<"2", "0", "0", "g", "r", "a", "d">>, <<"0", "r", "a", "d">>}
ChannelForms == {<<"0">>, <<"0", "%">>, <<"5", "0", "%">>, <<"1", "0", "0", "%">>, <<".", "5">>}
AlphaForms   == {<<>>, <<".", "5">>, <<"5", "0", "%">>}

\* the function strings name(hue, c2, c3[, alpha]) and name(hue c2 c3[ / alpha])
HueStrings ==
    {f \o <<"(">> \o h \o <<",">> \o c2 \o <<",", " ">> \o c3
       \o (IF a = <<>> THEN a ELSE <<",">> \o a) \o <<")">> :
        f \in HueFunctions, h \in HueForms, c2 \in ChannelForms, c3 \in ChannelForms,
        a \in AlphaForms}
    \cup
    {f \o <<"(">> \o h \o <<" ">> \o c2 \o <<" ">> \o c3
       \o (IF a = <<>> THEN a ELSE <<" ", "/", " ">> \o a) \o <<")">> :
        f \in HueFunctions, h \in HueForms, c2 \in ChannelForms, c3 \in ChannelForms,
        a \in AlphaForms}

Strings == FixedStrings \cup HueStrings

ByteInputs   == {[kind |-> "bytes", color |-> c, nums |-> <<>>] : c \in ByteColors}
StringInputs == {[kind |-> "string", color |-> None, nums |-> <<s>>] : s \in Strings}

\* no call has been made on the input yet
OnColor   == input.kind = "color"   /\ call = NullCall
OnNumbers == input.kind = "numbers" /\ call = NullCall

\* the operations whose result may be the receiver of the next call
Chainable == {"invert", "complement"}
CanChain  == call.op \in Chainable /\ prev = NullCall /\ call.res.ok

Init ==
    /\ input \in ColorInputs \cup NumberInputs \cup ByteInputs \cup StringInputs
    /\ call = NullCall
    /\ prev = NullCall

\* new Color(red, green, blue, alpha) on four numbers
New ==
    /\ OnNumbers
    /\ call' = Call("new", None, None, input.nums, FALSE,
                    Color_new(input.nums[1], input.nums[2], input.nums[3], input.nums[4]))
    /\ UNCHANGED <<input, prev>>

\* Color.fromHSV(hue, sat, val, alpha) on numbers: the arguments are wrapped
\* by new Angle and new Fraction, then the Angle/Fraction branch runs
FromHSV ==
    /\ OnNumbers
    /\ \E h \in Hues, k \in Turns :
        LET s == input.nums[2]
            v == input.nums[3]
            a == input.nums[4]
        IN  call' = Call("fromHSV", None, None, <<h, Int2Rat(k), s, v, a>>, FALSE,
                IF Fraction_new(s).ok /\ Fraction_new(v).ok /\ Fraction_new(a).ok
                THEN fromHSV(Angle_new(RAdd(h, Int2Rat(k))), s, v, a)
                ELSE Raise("RangeError"))
    /\ UNCHANGED <<input, prev>>

\* Color.fromHSL(hue, sat, lum, alpha) on numbers
FromHSL ==
    /\ OnNumbers
    /\ \E h \in Hues, k \in Turns :
        LET s == input.nums[2]
            l == input.nums[3]
            a == input.nums[4]
        IN  call' = Call("fromHSL", None, None, <<h, Int2Rat(k), s, l, a>>, FALSE,
                IF Fraction_new(s).ok /\ Fraction_new(l).ok /\ Fraction_new(a).ok
                THEN fromHSL(Angle_new(RAdd(h, Int2Rat(k))), s, l, a)
                ELSE Raise("RangeError"))
    /\ UNCHANGED <<input, prev>>

\* Color.fromHWB(hue, white, black, alpha) on numbers
FromHWB ==
    /\ OnNumbers
    /\ \E h \in Hues, k \in Turns :
        LET w == input.nums[2]
            b == input.nums[3]
            a == input.nums[4]
        IN  call' = Call("fromHWB", None, None, <<h, Int2Rat(k), w, b, a>>, FALSE,
                IF Fraction_new(w).ok /\ Fraction_new(b).ok /\ Fraction_new(a).ok
                THEN fromHWB(Angle_new(RAdd(h, Int2Rat(k))), w, b, a)
                ELSE Raise("RangeError"))
    /\ UNCHANGED <<input, prev>>

Invert ==
    /\ \/ /\ OnColor
          /\ call' = Call("invert", input.color, None, <<>>, FALSE, invert(input.color))
          /\ prev' = prev
       \/ /\ CanChain
          /\ call' = Call("invert", call.res.v, None, <<>>, FALSE, invert(call.res.v))
          /\ prev' = call
    /\ UNCHANGED input

Complement ==
    /\ \/ /\ OnColor
          /\ call' = Call("complement", input.color, None, <<>>, FALSE,
                          complement(input.color))
          /\ prev' = prev
       \/ /\ CanChain
          /\ call' = Call("complement", call.res.v, None, <<>>, FALSE,
                          complement(call.res.v))
          /\ prev' = call
    /\ UNCHANGED input

Negate ==
    /\ OnColor
    /\ call' = Call("negate", input.color, None, <<>>, FALSE, negate(input.color))
    /\ UNCHANGED <<input, prev>>

Rotate ==
    /\ OnColor
    /\ \E theta \in Angles :
        call' = Call("rotate", input.color, None, <<theta>>, FALSE,
                     rotate(input.color, Angle_new(theta)))
    /\ UNCHANGED <<input, prev>>

RotateDeg ==
    /\ OnColor
    /\ \E theta \in Degrees :
        call' = Call("rotateDeg", input.color, None, <<theta>>, FALSE,
                     rotateDeg(input.color, theta))
    /\ UNCHANGED <<input, prev>>

Saturate ==
    /\ OnColor
    /\ \E p \in Grid, rel \in BOOLEAN :
        call' = Call("saturate", input.color, None, <<p>>, rel,
                     saturate(input.color, p, rel))
    /\ UNCHANGED <<input, prev>>

Desaturate ==
    /\ OnColor
    /\ \E p \in Grid, rel \in BOOLEAN :
        call' = Call("desaturate", input.color, None, <<p>>, rel,
                     desaturate(input.color, p, rel))
    /\ UNCHANGED <<input, prev>>

Lighten ==
    /\ OnColor
    /\ \E p \in Grid, rel \in BOOLEAN :
        call' = Call("lighten", input.color, None, <<p>>, rel,
                     lighten(input.color, p, rel))
    /\ UNCHANGED <<input, prev>>

Darken ==
    /\ OnColor
    /\ \E p \in Grid, rel \in BOOLEAN :
        call' = Call("darken", input.color, None, <<p>>, rel,
                     darken(input.color, p, rel))
    /\ UNCHANGED <<input, prev>>

FadeIn ==
    /\ OnColor
    /\ \E p \in Grid, rel \in BOOLEAN :
        call' = Call("fadeIn", input.color, None, <<p>>, rel,
                     fadeIn(input.color, p, rel))
    /\ UNCHANGED <<input, prev>>

FadeOut ==
    /\ OnColor
    /\ \E p \in Grid, rel \in BOOLEAN :
        call' = Call("fadeOut", input.color, None, <<p>>, rel,
                     fadeOut(input.color, p, rel))
    /\ UNCHANGED <<input, prev>>

Mix ==
    /\ OnColor
    /\ \E color \in OtherColors, weight \in Weights :
        call' = Call("mix", input.color, color, <<weight>>, FALSE,
                     mix(input.color, color, weight))
    /\ UNCHANGED <<input, prev>>

Blur ==
    /\ OnColor
    /\ \E color \in OtherColors, weight \in Weights :
        call' = Call("blur", input.color, color, <<weight>>, FALSE,
                     blur(input.color, color, weight))
    /\ UNCHANGED <<input, prev>>

Equals ==
    /\ OnColor
    /\ \E color \in OtherColors :
        call' = Call("equals", input.color, color, <<>>, FALSE,
                     Return(equals(input.color, color)))
    /\ UNCHANGED <<input, prev>>

StaticMix ==
    /\ OnColor
    /\ \E colors \in ColorLists(input.color) :
        call' = Call("Color.mix", input.color, None, colors, FALSE, Color_mix(colors))
    /\ UNCHANGED <<input, prev>>

StaticBlur ==
    /\ OnColor
    /\ \E colors \in ColorLists(input.color) :
        call' = Call("Color.blur", input.color, None, colors, FALSE, Color_blur(colors))
    /\ UNCHANGED <<input, prev>>

\* color.toString() in the default hex form
ColorToString ==
    /\ input.kind \in {"color", "bytes"}
    /\ call = NullCall
    /\ call' = Call("toString", input.color, None, <<>>, FALSE,
                    Return(toString(input.color)))
    /\ UNCHANGED <<input, prev>>

\* Color.fromString(str) on a string, or on what toString has just returned
FromString ==
    /\ \/ /\ input.kind = "string"
          /\ call = NullCall
          /\ call' = Call("fromString", None, None, input.nums, FALSE,
                          fromString(input.nums[1]))
          /\ prev' = prev
       \/ /\ call.op = "toString"
          /\ prev = NullCall
          /\ call' = Call("fromString", None, None, <<call.res.v>>, FALSE,
                          fromString(call.res.v))
          /\ prev' = call
    /\ UNCHANGED input

\* the three hue accessors
HueAccessors == {"hsvHue", "hslHue", "hwbHue"}

Hue ==
    /\ OnColor
    /\ \E accessor \in HueAccessors :
        call' = Call(accessor, input.color, None, <<>>, FALSE,
                     Return(CASE accessor = "hsvHue" -> hsvHue(input.color)
                              [] accessor = "hslHue" -> hslHue(input.color)
                              [] accessor = "hwbHue" -> hwbHue(input.color)))
    /\ UNCHANGED <<input, prev>>

\* the Fraction calls.  The receiver of the first call is new Fraction(nums[1])
\* and its arguments are nums[2] and nums[3]; the receiver of a second call is
\* the Fraction the first call returned and its arguments are nums[3] and nums[4].
FractionOps == {"plus", "minus", "plusClamp", "minusClamp", "times",
                "conjugate", "clamp"}
OnFraction      == OnNumbers /\ Fraction_new(input.nums[1]).ok
OnFractionCall  == call.op \in FractionOps /\ prev = NullCall /\ call.res.ok
FractionReady   == OnFraction \/ OnFractionCall
FractionThis    == IF call = NullCall THEN input.nums[1] ELSE call.res.v
FractionArg     == IF call = NullCall THEN input.nums[2] ELSE input.nums[3]
FractionArg2    == IF call = NullCall THEN input.nums[3] ELSE input.nums[4]

\* new Fraction(f) on a number
NewFraction ==
    /\ OnNumbers
    /\ call' = Call("newFraction", None, None, <<input.nums[1]>>, FALSE,
                    Fraction_new(input.nums[1]))
    /\ UNCHANGED <<input, prev>>

Plus ==
    /\ FractionReady
    /\ call' = Call("plus", None, None, <<FractionThis, FractionArg>>, FALSE,
                    Fraction_plus(FractionThis, FractionArg))
    /\ prev' = call
    /\ UNCHANGED input

Minus ==
    /\ FractionReady
    /\ call' = Call("minus", None, None, <<FractionThis, FractionArg>>, FALSE,
                    Fraction_minus(FractionThis, FractionArg))
    /\ prev' = call
    /\ UNCHANGED input

PlusClamp ==
    /\ FractionReady
    /\ call' = Call("plusClamp", None, None, <<FractionThis, FractionArg>>, FALSE,
                    Return(Fraction_plusClamp(FractionThis, FractionArg)))
    /\ prev' = call
    /\ UNCHANGED input

MinusClamp ==
    /\ FractionReady
    /\ call' = Call("minusClamp", None, None, <<FractionThis, FractionArg>>, FALSE,
                    Return(Fraction_minusClamp(FractionThis, FractionArg)))
    /\ prev' = call
    /\ UNCHANGED input

\* this.times(multiplier) on a number: the multiplier is wrapped by new Fraction
Times ==
    /\ FractionReady
    /\ call' = Call("times", None, None, <<FractionThis, FractionArg>>, FALSE,
                    IF Fraction_new(FractionArg).ok
                    THEN Return(Fraction_times(FractionThis, FractionArg))
                    ELSE Raise("RangeError"))
    /\ prev' = call
    /\ UNCHANGED input

Conjugate ==
    /\ FractionReady
    /\ call' = Call("conjugate", None, None, <<FractionThis>>, FALSE,
                    Return(Fraction_conjugate(FractionThis)))
    /\ prev' = call
    /\ UNCHANGED input

\* this.clamp(min, max) on numbers: both bounds are wrapped by new Fraction
Clamp ==
    /\ FractionReady
    /\ call' = Call("clamp", None, None, <<FractionThis, FractionArg, FractionArg2>>,
                    FALSE,
                    IF Fraction_new(FractionArg).ok /\ Fraction_new(FractionArg2).ok
                    THEN Return(Fraction_clamp(FractionThis, FractionArg, FractionArg2))
                    ELSE Raise("RangeError"))
    /\ prev' = call
    /\ UNCHANGED input

Next ==
    \/ New
    \/ FromHSV
    \/ FromHSL
    \/ FromHWB
    \/ Invert
    \/ Complement
    \/ Negate
    \/ Rotate
    \/ RotateDeg
    \/ Saturate
    \/ Desaturate
    \/ Lighten
    \/ Darken
    \/ FadeIn
    \/ FadeOut
    \/ Mix
    \/ Blur
    \/ Equals
    \/ Plus
    \/ Minus
    \/ PlusClamp
    \/ MinusClamp
    \/ NewFraction
    \/ Times
    \/ Conjugate
    \/ Clamp
    \/ Hue
    \/ StaticMix
    \/ StaticBlur
    \/ ColorToString
    \/ FromString

Spec == Init /\ [][Next]_vars

(***************************************************************************)
(* Angles on their own.  input is the arguments of new Angle, call is the  *)
(* most recent call with the value it returned and the number of calls     *)
(* made on the Angle so far, prev is the call before it.                   *)
(***************************************************************************)
MaxCalls == 2

AngleCall(op, args, res, n) == [op |-> op, args |-> args, res |-> res, n |-> n]

AngleThetas ==
    {PiNum(q, 0) : q \in {Int2Rat(-1), Rat(-1, 4), Zero, Rat(1, 4), Rat(3, 5), Rat(3, 4),
                          One, Rat(5, 4), Int2Rat(100), Int2Rat(180)}}
    \cup {MathPI}
AngleAddends == {Rat(-1, 2), Zero, Rat(1, 4), Rat(3, 4), One}
AngleScalars == {Int2Rat(-2), Zero, Rat(1, 2), One, Int2Rat(2)}

\* the calls that return an Angle
AngleMakers == {"new", "plus", "minus", "scale"}
\* an Angle has been returned and may receive another call
OnAngle == call.op \in AngleMakers /\ call.n < MaxCalls
\* an Angle whose value is rational
OnRationalAngle == OnAngle /\ call.res.pi = 0

InitAngle ==
    /\ input \in {[kind |-> "angle", theta |-> t, unit |-> u] :
                     t \in AngleThetas, u \in AngleUnit}
    /\ call = NullCall
    /\ prev = NullCall

\* new Angle(theta, unit)
AngleNew ==
    /\ call.op = "none"
    /\ call' = AngleCall("new", <<input.theta, input.unit>>,
                         Angle_newIn(input.theta, input.unit), 0)
    /\ UNCHANGED <<input, prev>>

\* angle.plus(addend) on a number: the addend is wrapped by new Angle
AnglePlus ==
    /\ OnRationalAngle
    /\ \E addend \in AngleAddends :
        call' = AngleCall("plus", <<addend>>,
                          PiNum(Angle_plus(call.res.q, Angle_new(addend)), 0), call.n + 1)
    /\ prev' = call
    /\ UNCHANGED input

\* angle.minus(subtrahend) on a number
AngleMinus ==
    /\ OnRationalAngle
    /\ \E subtrahend \in AngleAddends :
        call' = AngleCall("minus", <<subtrahend>>,
                          PiNum(Angle_minus(call.res.q, Angle_new(subtrahend)), 0),
                          call.n + 1)
    /\ prev' = call
    /\ UNCHANGED input

\* angle.scale(scalar)
AngleScale ==
    /\ OnAngle
    /\ \E scalar \in AngleScalars :
        call' = AngleCall("scale", <<scalar>>, Angle_scale(call.res, scalar), call.n + 1)
    /\ prev' = call
    /\ UNCHANGED input

\* angle.convert(unit)
AngleConvert ==
    /\ call.op \in AngleMakers
    /\ \E unit \in AngleUnit :
        call' = AngleCall("convert", <<unit>>, Angle_convert(call.res, unit), call.n)
    /\ prev' = call
    /\ UNCHANGED input

\* angle.toString(10, unit)
AngleToString ==
    /\ call.op \in AngleMakers
    /\ \E unit \in AngleUnit :
        call' = AngleCall("toString", <<10, unit>>, Angle_toString(call.res, 10, unit),
                          call.n)
    /\ prev' = call
    /\ UNCHANGED input

NextAngle ==
    \/ AngleNew
    \/ AnglePlus
    \/ AngleMinus
    \/ AngleScale
    \/ AngleConvert
    \/ AngleToString

SpecAngle == InitAngle /\ [][NextAngle]_vars

(***************************************************************************)
(* Meter: a value within a range, with optional low, high and optimum.     *)
(* A Meter is the record of its six private fields; null is the empty      *)
(* sequence and a number n is <<n>> for the three optional fields.          *)
(***************************************************************************)
null == <<>>

\* xjs.Math.clamp(min, x, max): Math.min(Math.max(min, x), max), the bounds
\* switched when min > max
xjs_Math_clamp(min, x, max) ==
    IF RLe(min, max) THEN RMin(RMax(min, x), max) ELSE RMin(RMax(max, x), min)

\* xjs.Math.clamp(min, x, Infinity)
xjs_Math_clampBelow(min, x) == RMax(min, x)

\* new Meter(min, val, max)
Meter_new(min, val, max) ==
    [min |-> min, max |-> RMax(min, max), val |-> xjs_Math_clamp(min, val, max),
     low |-> null, high |-> null, opt |-> null]

\* set value(val)
Meter_set_value(this, val) ==
    [this EXCEPT !.val = xjs_Math_clamp(this.min, val, this.max)]

\* set max(max):  this._max = clamp(this._min, max, Infinity); this.value = this._val
Meter_set_max(this, max) ==
    Meter_set_value([this EXCEPT !.max = xjs_Math_clampBelow(this.min, max)], this.val)

\* set min(min):  this._min = min; this.max = this._max
Meter_set_min(this, min) == Meter_set_max([this EXCEPT !.min = min], this.max)

\* set high(high)
Meter_set_high(this, high) ==
    [this EXCEPT !.high =
        IF high = null THEN high
        ELSE <<xjs_Math_clamp(IF this.low # null THEN this.low[1] ELSE this.min,
                              high[1], this.max)>>]

\* set low(low):  this._low = ...; this.high = this._high
Meter_set_low(this, low) ==
    Meter_set_high(
        [this EXCEPT !.low = IF low = null THEN low
                             ELSE <<xjs_Math_clamp(this.min, low[1], this.max)>>],
        this.high)

\* set optimum(opt)
Meter_set_optimum(this, opt) ==
    [this EXCEPT !.opt = IF opt = null THEN opt
                         ELSE <<xjs_Math_clamp(this.min, opt[1], this.max)>>]

(***************************************************************************)
(* Meters on their own.  input is the arguments of new Meter, call is the  *)
(* most recent assignment with the Meter it left and the number of         *)
(* assignments so far, prev is the call before it.                         *)
(***************************************************************************)
MaxSets == 2

MeterCall(op, args, res, n) == [op |-> op, args |-> args, res |-> res, n |-> n]

MeterNumbers == {Int2Rat(k) : k \in 0..3}
MeterOptionals == {null} \cup {<<x>> : x \in MeterNumbers}
MeterOps == {"new", "min", "max", "value", "low", "high", "optimum"}
\* a Meter exists and may be assigned to
OnMeter == call.op \in MeterOps /\ call.n < MaxSets

InitMeter ==
    /\ input \in {[kind |-> "meter", min |-> a, val |-> b, max |-> c] :
                     a \in MeterNumbers, b \in MeterNumbers, c \in MeterNumbers}
    /\ call = NullCall
    /\ prev = NullCall

\* new Meter(min, val, max)
MeterNew ==
    /\ call.op = "none"
    /\ call' = MeterCall("new", <<input.min, input.val, input.max>>,
                         Meter_new(input.min, input.val, input.max), 0)
    /\ UNCHANGED <<input, prev>>

\* meter.min = x
MeterSetMin ==
    /\ OnMeter
    /\ \E x \in MeterNumbers :
        call' = MeterCall("min", <<x>>, Meter_set_min(call.res, x), call.n + 1)
    /\ prev' = call
    /\ UNCHANGED input

\* meter.max = x
MeterSetMax ==
    /\ OnMeter
    /\ \E x \in MeterNumbers :
        call' = MeterCall("max", <<x>>, Meter_set_max(call.res, x), call.n + 1)
    /\ prev' = call
    /\ UNCHANGED input

\* meter.value = x
MeterSetValue ==
    /\ OnMeter
    /\ \E x \in MeterNumbers :
        call' = MeterCall("value", <<x>>, Meter_set_value(call.res, x), call.n + 1)
    /\ prev' = call
    /\ UNCHANGED input

\* meter.low = x
MeterSetLow ==
    /\ OnMeter
    /\ \E x \in MeterOptionals :
        call' = MeterCall("low", <<x>>, Meter_set_low(call.res, x), call.n + 1)
    /\ prev' = call
    /\ UNCHANGED input

\* meter.high = x
MeterSetHigh ==
    /\ OnMeter
    /\ \E x \in MeterOptionals :
        call' = MeterCall("high", <<x>>, Meter_set_high(call.res, x), call.n + 1)
    /\ prev' = call
    /\ UNCHANGED input

\* meter.optimum = x
MeterSetOptimum ==
    /\ OnMeter
    /\ \E x \in MeterOptionals :
        call' = MeterCall("optimum", <<x>>, Meter_set_optimum(call.res, x), call.n + 1)
    /\ prev' = call
    /\ UNCHANGED input

NextMeter ==
    \/ MeterNew
    \/ MeterSetMin
    \/ MeterSetMax
    \/ MeterSetValue
    \/ MeterSetLow
    \/ MeterSetHigh
    \/ MeterSetOptimum

SpecMeter == InitMeter /\ [][NextMeter]_vars

(***************************************************************************)
(* MeterInt: a Meter whose properties are Integers.  A MeterInt is the     *)
(* record of its underlying Meter and its own six private fields.          *)
(***************************************************************************)
\* new Integer(z):  super(Math.trunc(z))
Integer_new(z) == Int2Rat(RTrunc(z))

\* new MeterInt(min, val, max)
MeterInt_new(min, val, max) ==
    [METER |-> Meter_new(min, val, max),
     min   |-> Integer_new(Meter_new(min, val, max).min),
     max   |-> Integer_new(Meter_new(min, val, max).max),
     val   |-> Integer_new(Meter_new(min, val, max).val),
     low   |-> null, high |-> null, opt |-> null]

\* set min(min)
MeterInt_set_min(this, min) ==
    [this EXCEPT !.METER = Meter_set_min(this.METER, min),
                 !.min   = Integer_new(Meter_set_min(this.METER, min).min)]

\* set max(max)
MeterInt_set_max(this, max) ==
    [this EXCEPT !.METER = Meter_set_max(this.METER, max),
                 !.max   = Integer_new(Meter_set_max(this.METER, max).max)]

\* set value(val)
MeterInt_set_value(this, val) ==
    [this EXCEPT !.METER = Meter_set_value(this.METER, val),
                 !.val   = Integer_new(Meter_set_value(this.METER, val).val)]

\* set low(low)
MeterInt_set_low(this, low) ==
    [this EXCEPT !.METER = Meter_set_low(this.METER, low),
                 !.low   = IF low = null THEN low
                           ELSE <<Integer_new(Meter_set_low(this.METER, low).low[1])>>]

\* set high(high)
MeterInt_set_high(this, high) ==
    [this EXCEPT !.METER = Meter_set_high(this.METER, high),
                 !.high  = IF high = null THEN high
                           ELSE <<Integer_new(Meter_set_high(this.METER, high).high[1])>>]

\* set optimum(opt)
MeterInt_set_optimum(this, opt) ==
    [this EXCEPT !.METER = Meter_set_optimum(this.METER, opt),
                 !.opt   = IF opt = null THEN opt
                           ELSE <<Integer_new(Meter_set_optimum(this.METER, opt).opt[1])>>]

(***************************************************************************)
(* MeterInts on their own, with the variables used as for Meters.  The     *)
(* constructor takes Integers or numbers, the setters take Integers.       *)
(***************************************************************************)
MeterIntArguments == {Zero, Rat(1, 2), Int2Rat(2)}
Integers == {Int2Rat(k) : k \in 0..3}
OptionalIntegers == {null} \cup {<<z>> : z \in Integers}

InitMeterInt ==
    /\ input \in {[kind |-> "meterint", min |-> a, val |-> b, max |-> c] :
                     a \in MeterIntArguments, b \in MeterIntArguments,
                     c \in MeterIntArguments}
    /\ call = NullCall
    /\ prev = NullCall

\* new MeterInt(min, val, max)
MeterIntNew ==
    /\ call.op = "none"
    /\ call' = MeterCall("new", <<input.min, input.val, input.max>>,
                         MeterInt_new(input.min, input.val, input.max), 0)
    /\ UNCHANGED <<input, prev>>

\* meterint.min = z
MeterIntSetMin ==
    /\ OnMeter
    /\ \E z \in Integers :
        call' = MeterCall("min", <<z>>, MeterInt_set_min(call.res, z), call.n + 1)
    /\ prev' = call
    /\ UNCHANGED input

\* meterint.max = z
MeterIntSetMax ==
    /\ OnMeter
    /\ \E z \in Integers :
        call' = MeterCall("max", <<z>>, MeterInt_set_max(call.res, z), call.n + 1)
    /\ prev' = call
    /\ UNCHANGED input

\* meterint.value = z
MeterIntSetValue ==
    /\ OnMeter
    /\ \E z \in Integers :
        call' = MeterCall("value", <<z>>, MeterInt_set_value(call.res, z), call.n + 1)
    /\ prev' = call
    /\ UNCHANGED input

\* meterint.low = z
MeterIntSetLow ==
    /\ OnMeter
    /\ \E z \in OptionalIntegers :
        call' = MeterCall("low", <<z>>, MeterInt_set_low(call.res, z), call.n + 1)
    /\ prev' = call
    /\ UNCHANGED input

\* meterint.high = z
MeterIntSetHigh ==
    /\ OnMeter
    /\ \E z \in OptionalIntegers :
        call' = MeterCall("high", <<z>>, MeterInt_set_high(call.res, z), call.n + 1)
    /\ prev' = call
    /\ UNCHANGED input

\* meterint.optimum = z
MeterIntSetOptimum ==
    /\ OnMeter
    /\ \E z \in OptionalIntegers :
        call' = MeterCall("optimum", <<z>>, MeterInt_set_optimum(call.res, z),
                          call.n + 1)
    /\ prev' = call
    /\ UNCHANGED input

NextMeterInt ==
    \/ MeterIntNew
    \/ MeterIntSetMin
    \/ MeterIntSetMax
    \/ MeterIntSetValue
    \/ MeterIntSetLow
    \/ MeterIntSetHigh
    \/ MeterIntSetOptimum

SpecMeterInt == InitMeterInt /\ [][NextMeterInt]_vars

(***************************************************************************)
(* TreeNode.  A tree is the record of every node's _parent (null, or <<p>> *)
(* for the node p) and every node's _CHILDREN (a sequence of nodes).  A    *)
(* call ends by returning, by raising an error, or not at all: has() walks *)
(* the parent links until it meets a node without a parent.                *)
(***************************************************************************)
TreeNodes == {"r", "a", "b"}

\* the tree a call left behind and the way the call ended
Outcome(tree, end) == [tree |-> tree, end |-> end]

\* Array.prototype.indexOf, counting from 0, -1 when x is not in s
indexOf(s, x) ==
    IF \E i \in 1..Len(s) : s[i] = x
    THEN (CHOOSE i \in 1..Len(s) : s[i] = x /\ \A j \in 1..(i - 1) : s[j] # x) - 1
    ELSE -1

\* where Array.prototype.splice starts: a negative start counts from the end
spliceStart(s, start) ==
    IF start < 0 THEN (IF Len(s) + start < 0 THEN 0 ELSE Len(s) + start)
    ELSE IF start > Len(s) THEN Len(s) ELSE start

\* the array after s.splice(start, deleteCount, ...items)
spliceFrom(s, from, deleteCount, items) ==
    SubSeq(s, 1, from) \o items
        \o SubSeq(s, from + (IF deleteCount > Len(s) - from THEN Len(s) - from
                             ELSE deleteCount) + 1, Len(s))
splice(s, start, deleteCount, items) ==
    spliceFrom(s, spliceStart(s, start), deleteCount, items)

RECURSIVE has_walk(_, _, _, _)
\* the loop of has(): "true", "false", or "hangs" when the parent links of
\* node run in a circle that does not hold this (more steps than nodes)
has_walk(tree, this, node, steps) ==
    IF tree.parent[node] = null THEN "false"
    ELSE IF tree.parent[node][1] = this THEN "true"
    ELSE IF steps = 0 THEN "hangs"
    ELSE has_walk(tree, this, tree.parent[node][1], steps - 1)

\* this.has(node)
has(tree, this, node) == has_walk(tree, this, node, Cardinality(TreeNodes))

\* the body of delete's loop for one child, once has(child) is known
delete_known(o, this, child, found) ==
    CASE found = "hangs" -> Outcome(o.tree, "hangs")
      [] found = "false" -> o
      [] found = "true"  ->
            Outcome([parent   |-> [o.tree.parent EXCEPT ![child] = null],
                     CHILDREN |-> [o.tree.CHILDREN EXCEPT
                                      ![this] = splice(@, indexOf(@, child), 1, <<>>)]],
                    "returns")

\* the body of delete's loop for one child
delete_one(o, this, child) ==
    IF o.end # "returns" THEN o
    ELSE delete_known(o, this, child, has(o.tree, this, child))

RECURSIVE delete_each(_, _, _)
delete_each(o, this, children) ==
    IF children = <<>> THEN o
    ELSE delete_each(delete_one(o, this, Head(children)), this, Tail(children))

\* this.delete(...children)
delete(tree, this, children) == delete_each(Outcome(tree, "returns"), this, children)

\* node._parent = this
setParent(o, this, node) ==
    IF o.end # "returns" THEN o
    ELSE Outcome([o.tree EXCEPT !.parent[node] = <<this>>], "returns")

\* the body of the loop that follows push, unshift and splice:
\* if (node._parent) node._parent.delete(node); node._parent = this
adopt_one(o, this, node) ==
    IF o.end # "returns" THEN o
    ELSE IF o.tree.parent[node] = null THEN setParent(o, this, node)
    ELSE setParent(delete_one(o, o.tree.parent[node][1], node), this, node)

RECURSIVE adopt_each(_, _, _)
adopt_each(o, this, nodes) ==
    IF nodes = <<>> THEN o
    ELSE adopt_each(adopt_one(o, this, Head(nodes)), this, Tail(nodes))

\* this.prepend(...nodes)
prepend(tree, this, nodes) ==
    adopt_each(Outcome([tree EXCEPT !.CHILDREN[this] = nodes \o @], "returns"),
               this, nodes)

\* this.append(...nodes)
append(tree, this, nodes) ==
    adopt_each(Outcome([tree EXCEPT !.CHILDREN[this] = @ \o nodes], "returns"),
               this, nodes)

\* the index insertAfter computes from its reference, a node or a number
referenceIndex(tree, this, reference) ==
    IF reference.kind = "node" THEN indexOf(tree.CHILDREN[this], reference.v)
    ELSE reference.v

\* this.insertAfter(nodes, reference)
insertAfter(tree, this, nodes, reference) ==
    IF referenceIndex(tree, this, reference) < 0 THEN Outcome(tree, "ReferenceError")
    ELSE adopt_each(
            Outcome([tree EXCEPT !.CHILDREN[this] =
                        splice(@, referenceIndex(tree, this, reference), 0, nodes)],
                    "returns"),
            this, nodes)

\* this.clear()
clear(tree, this) ==
    Outcome([parent   |-> [n \in TreeNodes |->
                              IF \E i \in 1..Len(tree.CHILDREN[this]) :
                                     tree.CHILDREN[this][i] = n
                              THEN null ELSE tree.parent[n]],
             CHILDREN |-> [tree.CHILDREN EXCEPT ![this] = <<>>]],
            "returns")

\* this.prevSibling, for a node with a parent: null when there is none
prevSibling(tree, this) ==
    IF indexOf(tree.CHILDREN[tree.parent[this][1]], this) >= 1
    THEN <<tree.CHILDREN[tree.parent[this][1]]
               [indexOf(tree.CHILDREN[tree.parent[this][1]], this)]>>
    ELSE null

\* this.before(...nodes)
before(tree, this, nodes) ==
    IF tree.parent[this] = null THEN Outcome(tree, "OrphanError")
    ELSE IF prevSibling(tree, this) # null
    THEN insertAfter(tree, tree.parent[this][1], nodes,
                     [kind |-> "node", v |-> prevSibling(tree, this)[1]])
    ELSE prepend(tree, tree.parent[this][1], nodes)

\* this.after(...nodes)
after(tree, this, nodes) ==
    IF tree.parent[this] = null THEN Outcome(tree, "OrphanError")
    ELSE insertAfter(tree, tree.parent[this][1], nodes, [kind |-> "node", v |-> this])

\* this.remove()
remove(tree, this) ==
    IF tree.parent[this] = null THEN Outcome(tree, "OrphanError")
    ELSE delete(tree, tree.parent[this][1], <<this>>)

(***************************************************************************)
(* TreeNodes on their own.  input names the nodes that were constructed,   *)
(* call is the most recent call with its receiver, its arguments, the tree *)
(* it left, the way it ended and the number of calls so far, prev is the   *)
(* tree before that call.                                                  *)
(***************************************************************************)
TreeCall(op, this, args, o, n) ==
    [op |-> op, this |-> this, args |-> args, res |-> o.tree, end |-> o.end, n |-> n]

\* every node as its constructor leaves it
Orphans == [parent |-> [n \in TreeNodes |-> null], CHILDREN |-> [n \in TreeNodes |-> <<>>]]

\* argument lists: one node, or two different nodes
NodeLists ==
    {<<x>> : x \in TreeNodes}
    \cup {s \in TreeNodes \X TreeNodes : s[1] # s[2]}
\* references: a node, or an index
NodeReferences == {[kind |-> "node", v |-> x] : x \in TreeNodes}
IndexReferences == {[kind |-> "index", v |-> i] : i \in 0..1}

TreeOps == {"new", "append", "prepend", "insertAfter", "delete", "clear", "remove",
            "before", "after"}
\* the last call came back (a call that hangs is the program's last step)
OnTree == call.op \in TreeOps /\ call.end # "hangs" /\ call.n < MaxCalls + 1

InitTree ==
    /\ input = [kind |-> "tree", nodes |-> TreeNodes]
    /\ call = NullCall
    /\ prev = NullCall

\* new TreeNode(value), for every node of the model
TreeNew ==
    /\ call.op = "none"
    /\ call' = TreeCall("new", "r", <<>>, Outcome(Orphans, "returns"), 0)
    /\ UNCHANGED <<input, prev>>

Before == TreeCall("before the call", "r", <<>>, Outcome(call.res, "returns"), call.n)

TreeAppend ==
    /\ OnTree
    /\ \E this \in TreeNodes, nodes \in NodeLists :
        call' = TreeCall("append", this, <<nodes>>, append(call.res, this, nodes),
                         call.n + 1)
    /\ prev' = Before
    /\ UNCHANGED input

TreePrepend ==
    /\ OnTree
    /\ \E this \in TreeNodes, nodes \in NodeLists :
        call' = TreeCall("prepend", this, <<nodes>>, prepend(call.res, this, nodes),
                         call.n + 1)
    /\ prev' = Before
    /\ UNCHANGED input

InsertAfterCall(this, nodes, reference) ==
    TreeCall("insertAfter", this, <<nodes, reference>>,
             insertAfter(call.res, this, nodes, reference), call.n + 1)

TreeInsertAfter ==
    /\ OnTree
    /\ \E this \in TreeNodes, nodes \in NodeLists :
        \/ \E reference \in NodeReferences :
              call' = InsertAfterCall(this, nodes, reference)
        \/ \E reference \in IndexReferences :
              call' = InsertAfterCall(this, nodes, reference)
    /\ prev' = Before
    /\ UNCHANGED input

TreeDelete ==
    /\ OnTree
    /\ \E this \in TreeNodes, children \in NodeLists :
        call' = TreeCall("delete", this, <<children>>,
                         delete(call.res, this, children), call.n + 1)
    /\ prev' = Before
    /\ UNCHANGED input

TreeClear ==
    /\ OnTree
    /\ \E this \in TreeNodes :
        call' = TreeCall("clear", this, <<>>, clear(call.res, this), call.n + 1)
    /\ prev' = Before
    /\ UNCHANGED input

TreeRemove ==
    /\ OnTree
    /\ \E this \in TreeNodes :
        call' = TreeCall("remove", this, <<>>, remove(call.res, this), call.n + 1)
    /\ prev' = Before
    /\ UNCHANGED input

TreeBefore ==
    /\ OnTree
    /\ \E this \in TreeNodes, nodes \in NodeLists :
        call' = TreeCall("before", this, <<nodes>>, before(call.res, this, nodes),
                         call.n + 1)
    /\ prev' = Before
    /\ UNCHANGED input

TreeAfter ==
    /\ OnTree
    /\ \E this \in TreeNodes, nodes \in NodeLists :
        call' = TreeCall("after", this, <<nodes>>, after(call.res, this, nodes),
                         call.n + 1)
    /\ prev' = Before
    /\ UNCHANGED input

NextTree ==
    \/ TreeNew
    \/ TreeAppend
    \/ TreePrepend
    \/ TreeInsertAfter
    \/ TreeDelete
    \/ TreeClear
    \/ TreeRemove
    \/ TreeBefore
    \/ TreeAfter

SpecTree == InitTree /\ [][NextTree]_vars

(***************************************************************************)
(* TreeNodeBreadth: the nodes of a tree level by level.                    *)
(***************************************************************************)
RECURSIVE height(_, _)
RECURSIVE maxHeight(_, _)
\* Integer.max(...children.map((child) => child.height)), for one child or more
maxHeight(tree, children) ==
    IF Len(children) = 1 THEN height(tree, children[1])
    ELSE IF height(tree, Head(children)) >= maxHeight(tree, Tail(children))
         THEN height(tree, Head(children))
         ELSE maxHeight(tree, Tail(children))

\* this.height
height(tree, this) ==
    IF Len(tree.CHILDREN[this]) = 0 THEN 1
    ELSE maxHeight(tree, tree.CHILDREN[this]) + 1

\* a.concat(b) inside reduce, for two results of _givenLevel
concatResults(a, b) ==
    IF ~a.ok THEN a ELSE IF ~b.ok THEN b ELSE Return(a.v \o b.v)

RECURSIVE givenLevel(_, _, _)
RECURSIVE givenLevelOfEach(_, _, _)
\* children.map((child) => child._givenLevel(level)).reduce((a, b) => a.concat(b)),
\* for one child or more
givenLevelOfEach(tree, children, level) ==
    IF Len(children) = 1 THEN givenLevel(tree, children[1], level)
    ELSE concatResults(givenLevel(tree, Head(children), level),
                       givenLevelOfEach(tree, Tail(children), level))

\* this._givenLevel(level), for a level >= 0: reduce without an initial value
\* raises TypeError on an empty array
givenLevel(tree, this, level) ==
    IF level = 0 THEN Return(<<this>>)
    ELSE IF Len(tree.CHILDREN[this]) = 0 THEN Raise("TypeError")
    ELSE givenLevelOfEach(tree, tree.CHILDREN[this], level - 1)

RECURSIVE nodes_loop(_, _, _, _)
\* the for loop of nodes(), from i on, with the array returned so far
nodes_loop(tree, this, i, returned) ==
    IF ~(i < height(tree, this)) THEN Return(returned)
    ELSE IF ~givenLevel(tree, this, i).ok THEN givenLevel(tree, this, i)
    ELSE nodes_loop(tree, this, i + 1, returned \o givenLevel(tree, this, i).v)

\* this.nodes()
nodes(tree, this) == nodes_loop(tree, this, 0, <<>>)

(***************************************************************************)
(* TreeNodeBreadth on its own.  input is a tree that append calls have     *)
(* built, call is the nodes() call on one of its nodes.                    *)
(***************************************************************************)
\* the nodes of the trees, in the order in which siblings were appended
BreadthOrder == <<"r", "a", "b", "e", "f">>
BreadthNodes == {BreadthOrder[i] : i \in 1..Len(BreadthOrder)}

\* the tree with root "r" in which every other node n was appended to up[n]
TreeOf(up) ==
    [parent   |-> [n \in BreadthNodes |-> IF n = "r" THEN null ELSE <<up[n]>>],
     CHILDREN |-> [p \in BreadthNodes |->
                      SelectSeq(BreadthOrder, LAMBDA n : n # "r" /\ up[n] = p)]]

RECURSIVE LeadsToRoot(_, _, _)
LeadsToRoot(up, n, steps) ==
    \/ n = "r"
    \/ steps > 0 /\ LeadsToRoot(up, up[n], steps - 1)

\* every tree on the five nodes whose root is "r"
Trees ==
    {TreeOf(up) : up \in {u \in [BreadthNodes \ {"r"} -> BreadthNodes] :
                            \A n \in BreadthNodes \ {"r"} :
                                LeadsToRoot(u, n, Len(BreadthOrder))}}

InitBreadth ==
    /\ input \in {[kind |-> "breadth", tree |-> t] : t \in Trees}
    /\ call = NullCall
    /\ prev = NullCall

\* node.nodes()
BreadthNodesCall ==
    /\ call.op = "none"
    /\ \E this \in BreadthNodes :
        call' = [op |-> "nodes", this |-> this, res |-> nodes(input.tree, this)]
    /\ UNCHANGED <<input, prev>>

NextBreadth == BreadthNodesCall

SpecBreadth == InitBreadth /\ [][NextBreadth]_vars

(***************************************************************************)
(* Properties.                                                             *)
(***************************************************************************)
Clamp01(x) == RMax(Zero, RMin(One, x))

\* C1: c.rotate(t) returns, without raising, fromHSV((h + t) mod 1 turn, s, v, a)
\* for the HSV hue h, saturation s, value v and alpha a of c, for every angle t
\* (negative, or taking h + t to a full turn or beyond); the result has the
\* HSV saturation, value and alpha of c.
C1_RotateShiftsHueModuloOneTurn ==
    call.op = "rotate" =>
        LET c == call.recv
            t == call.args[1]
        IN  /\ call.res.ok
            /\ call.res = fromHSV(Angle_new(Mod1(RAdd(hsvHue(c), t))),
                                  hsvSat(c), hsvVal(c), c.alpha)
            /\ hsvSat(call.res.v) = hsvSat(c)
            /\ hsvVal(call.res.v) = hsvVal(c)
            /\ call.res.v.alpha = c.alpha

\* C2: c.complement().complement().equals(c) for every Color c, whatever its hue.
C2_ComplementTwiceIsIdentity ==
    call.op = "complement" =>
        /\ call.res.ok
        /\ prev.op = "complement" => equals(call.res.v, prev.recv)

\* C3: fromHSL(h + k full turns, s, l) equals fromHSL(h, s, l) for every hue h,
\* integer k and s, l in [0, 1]; likewise for fromHSV.
C3_FactoriesTakeHueModuloOneTurn ==
    /\ call.op = "fromHSL" /\ Fraction_new(call.args[3]).ok
       /\ Fraction_new(call.args[4]).ok /\ Fraction_new(call.args[5]).ok
       => call.res = fromHSL(Angle_new(call.args[1]), call.args[3], call.args[4],
                             call.args[5])
    /\ call.op = "fromHSV" /\ Fraction_new(call.args[3]).ok
       /\ Fraction_new(call.args[4]).ok /\ Fraction_new(call.args[5]).ok
       => call.res = fromHSV(Angle_new(call.args[1]), call.args[3], call.args[4],
                             call.args[5])

\* q = x^(1-w) * y^w for non-negative q, x, y and a weight w with 2w an integer,
\* stated without roots: q >= 0 and q^2 = x^(2-2w) * y^(2w)
IsGeometricInterpolation(q, x, y, w) ==
    LET k == RMul(Int2Rat(2), w)[1]
    IN  RLe(Zero, q) /\ RMul(q, q) = RMul(RPow(x, 2 - k), RPow(y, k))

SquaredCompoundAlpha(a1, a2, w) ==
    IF w = Zero THEN RMul(a1, RSub(Int2Rat(2), a1))
    ELSE IF w = One THEN RMul(a2, RSub(Int2Rat(2), a2))
    ELSE RSub(RAdd(a1, a2), RMul(a1, a2))

C5_MixEndpointsAreTheOperands ==
    call.op = "mix" =>
        /\ call.args[1] = Zero => call.res = Return(call.recv)
        /\ call.args[1] = One  => call.res = Return(call.other)

\* C6: v.plusClamp(x) is v + x when 0 <= v + x <= 1, else the boundary on the
\* side that was exceeded; v.minusClamp(x) does the same for v - x.
C6_ClampReturnsExceededBoundary ==
    /\ call.op = "plusClamp" =>
           call.res = Return(Clamp01(RAdd(call.args[1], call.args[2])))
    /\ call.op = "minusClamp" =>
           call.res = Return(Clamp01(RSub(call.args[1], call.args[2])))

\* C7: with an absolute amount p in [0, 1], fadeIn, lighten and saturate use
\* min(1, q + p) and fadeOut, darken and desaturate use max(0, q - p) for the
\* alpha, HSL lightness or HSL saturation q; so an amount of 0 returns an
\* identical color, fadeOut(1) a fully transparent one and darken(1) black.
C7_AdjustmentsSaturateAtBothBounds ==
    LET c == call.recv
        p == call.args[1]
        up(q)   == RMin(One, RAdd(q, p))
        down(q) == RMax(Zero, RSub(q, p))
    IN  call.op \in {"fadeIn", "fadeOut", "lighten", "darken", "saturate", "desaturate"}
        /\ ~call.rel =>
            /\ call.op = "fadeIn"  => call.res = Color_new(c.red, c.green, c.blue, up(c.alpha))
            /\ call.op = "fadeOut" => call.res = Color_new(c.red, c.green, c.blue, down(c.alpha))
            /\ call.op = "lighten" =>
                   call.res = fromHSL(hslHue(c), hslSat(c), up(hslLum(c)), c.alpha)
            /\ call.op = "darken" =>
                   call.res = fromHSL(hslHue(c), hslSat(c), down(hslLum(c)), c.alpha)
            /\ call.op = "saturate" =>
                   call.res = fromHSL(hslHue(c), up(hslSat(c)), hslLum(c), c.alpha)
            /\ call.op = "desaturate" =>
                   call.res = fromHSL(hslHue(c), down(hslSat(c)), hslLum(c), c.alpha)
            /\ p = Zero => call.res = Return(c)
            /\ call.op = "fadeOut" /\ p = One => call.res.v.alpha = Zero
            /\ call.op = "darken" /\ p = One =>
                   /\ call.res.v.red = Zero
                   /\ call.res.v.green = Zero
                   /\ call.res.v.blue = Zero

InUnit(x) == RLe(Zero, x) /\ RLe(x, One)

SameCallOn(b) ==
    CASE call.op = "invert"  -> invert(b)
      [] call.op = "negate"  -> negate(b)
      [] call.op = "rotate"  -> rotate(b, Angle_new(call.args[1]))
      [] call.op = "fadeIn"  -> fadeIn(b, call.args[1], call.rel)
      [] call.op = "mix"     -> mix(b, call.other, call.args[1])

\* C10: if a.equals(b), then t(a).equals(t(b)) for every transform t among
\* invert, negate, rotate, fadeIn and mix applied with the same arguments.
C10_EqualColorsAreReplaceable ==
    call.op \in {"invert", "negate", "rotate", "fadeIn", "mix"} =>
        \A b \in Colors :
            equals(call.recv, b) /\ call.res.ok /\ SameCallOn(b).ok =>
                equals(call.res.v, SameCallOn(b).v)

\* C11: new Fraction(f) raises a RangeError exactly when f lies outside [0, 1],
\* and every Fraction returned by plus, minus, times, conjugate, clamp,
\* plusClamp or minusClamp, called on a Fraction or on the Fraction an earlier
\* such call returned, has a value in [0, 1].
C11_FractionStaysInUnitInterval ==
    /\ call.op = "newFraction" =>
          IF InUnit(call.args[1]) THEN call.res = Return(call.args[1])
          ELSE call.res = Raise("RangeError")
    /\ (call.op \in FractionOps /\ call.res.ok) =>
          /\ InUnit(call.args[1])
          /\ InUnit(call.res.v)

\* a second Fraction call, on the product returned by a first one, that
\* returns a value strictly inside the interval
C11_Witness ==
    /\ prev.op = "times"
    /\ call.op = "minusClamp"
    /\ call.args[1] = prev.res.v
    /\ RLt(Zero, call.res.v) /\ RLt(call.res.v, One)

\* the hue formula of the first channel, in the order red, green, blue, that
\* equals max; the red formula is taken modulo 6 sixths of a turn
FirstMaxHue(c) ==
    LET ch  == Color_CHROMA(c)
        six == Int2Rat(6)
    IN  IF c.red = Color_MAX(c)
        THEN Mod1(RDiv(RAdd(RDiv(RSub(c.green, c.blue), ch), six), six))
        ELSE IF c.green = Color_MAX(c)
        THEN RDiv(RAdd(RDiv(RSub(c.blue, c.red), ch), Int2Rat(2)), six)
        ELSE RDiv(RAdd(RDiv(RSub(c.red, c.green), ch), Int2Rat(4)), six)

\* two of red, green, blue equal max, and chroma is not 0
TiedAtMax(c) ==
    /\ Color_CHROMA(c) # Zero
    /\ Cardinality({i \in 1..3 : <<c.red, c.green, c.blue>>[i] = Color_MAX(c)}) = 2

\* C12: when chroma is not 0 and two of red, green, blue equal max, the hue
\* accessor returns the value of the formula of the first channel, in the
\* order red, green, blue, that equals max.
C12_HueOfTieIsFirstMaxFormula ==
    (call.op \in HueAccessors /\ TiedAtMax(call.recv)) =>
        call.res = Return(FirstMaxHue(call.recv))

\* the hue of a color whose green and blue are both max and whose red is less
C12_Witness ==
    /\ call.op = "hsvHue"
    /\ call.recv.green = One /\ call.recv.blue = One
    /\ RLt(call.recv.red, One)
    /\ call.res = Return(Rat(1, 2))

\* C13: the hue accessor (hsvHue, hslHue, hwbHue alike) is 0 when chroma is 0
\* and otherwise a value h with 0 <= h < 1 turn.
C13_HueIsInCanonicalRange ==
    call.op \in HueAccessors =>
        /\ call.res.ok
        /\ call.res.v = hsvHue(call.recv)
        /\ IF Color_CHROMA(call.recv) = Zero THEN call.res.v = Zero
           ELSE RLe(Zero, call.res.v) /\ RLt(call.res.v, One)
        /\ RLe(Zero, Angle_convertDEG(call.res.v))
        /\ RLt(Angle_convertDEG(call.res.v), Int2Rat(CONVERSION_DEG))

\* the hwb hue of a color whose red is the only max and whose green is below
\* its blue: the red formula wraps around to the last sixth of the turn
C13_Witness ==
    /\ call.op = "hwbHue"
    /\ call.recv.red = One
    /\ RLt(call.recv.green, call.recv.blue) /\ RLt(call.recv.blue, One)
    /\ RLe(Rat(5, 6), call.res.v) /\ RLt(call.res.v, One)

C16_CompoundAlphaStaysInUnitInterval ==
    call.op \in {"Color.mix", "Color.blur"} =>
        /\ call.res.ok
        /\ InUnit(call.res.v.alpha)
        /\ (/\ Len(call.args) = 2
            /\ call.args[1].alpha = One
            /\ call.args[2].alpha = One) => call.res.v.alpha = One

\* a static blur of three colors, two translucent and one transparent, whose
\* alpha is strictly between the largest of theirs and 1
C16_Witness ==
    /\ call.op = "Color.blur" /\ Len(call.args) = 3
    /\ call.args[1].alpha = Rat(1, GridDen)
    /\ call.args[2].alpha = Rat(1, GridDen)
    /\ call.args[3].alpha = Zero
    /\ RLt(Rat(1, GridDen), call.res.v.alpha) /\ RLt(call.res.v.alpha, One)

\* Color.fromHSV(h, 1 - w / (1 - b), 1 - b, a) on numbers: 0 / 0 is NaN, which
\* new Fraction rejects as not finite
HwbByHSV(h, w, b, a) ==
    IF b = One THEN Raise("NaNError")
    ELSE LET sat == RSub(One, RDiv(w, RSub(One, b)))
             val == RSub(One, b)
         IN  IF Fraction_new(sat).ok /\ Fraction_new(val).ok /\ Fraction_new(a).ok
             THEN fromHSV(Angle_new(h), sat, val, a)
             ELSE Raise("RangeError")

\* a fromHWB call whose white, black and alpha are in [0, 1] with w + b <= 1
HwbInRange ==
    /\ call.op = "fromHWB"
    /\ InUnit(call.args[3]) /\ InUnit(call.args[4]) /\ InUnit(call.args[5])
    /\ RLe(RAdd(call.args[3], call.args[4]), One)

\* the HSV form of the arguments of the fromHWB call
HwbCallByHSV ==
    HwbByHSV(RAdd(call.args[1], call.args[2]), call.args[3], call.args[4], call.args[5])

IsByteColor(c) ==
    \A ch \in {"red", "green", "blue", "alpha"} : Fraction_of(c[ch], 255)[2] = 1

\* toString() has been called on a color and fromString on what it returned
RoundTrip == call.op = "fromString" /\ prev.op = "toString"

\* C18: for every Color c whose four channels are each k / 255 with k an
\* integer in 0..255, Color.fromString(c.toString()) returns a color that
\* equals c; the hex form carries the alpha pair exactly when alpha < 1, and a
\* string without the pair is read back with alpha 1.
C18_HexRoundTripOfByteColors ==
    (RoundTrip /\ IsByteColor(prev.recv)) =>
        /\ Len(prev.res.v) = (IF RLt(prev.recv.alpha, One) THEN 9 ELSE 7)
        /\ call.res.ok
        /\ equals(call.res.v, prev.recv)
        /\ Len(prev.res.v) = 7 => call.res.v.alpha = One

\* a round trip of a translucent color with a one-digit channel, and of an
\* opaque one whose string has no alpha pair
C18_Witness ==
    /\ RoundTrip /\ IsByteColor(prev.recv) /\ call.res.ok
    /\ prev.recv.red = Rat(1, 255)
    /\ prev.recv.green = Rat(16, 255)
    /\ prev.recv.blue = Rat(254, 255)
    /\ prev.recv.alpha = Rat(128, 255)
    /\ prev.res.v = <<"#", "0", "1", "1", "0", "f", "e", "8", "0">>
    /\ call.res.v = prev.recv

\* fromString has been called on a non-empty string that has no '(' and is
\* not a well-formed hex form
IsBareName ==
    /\ call.op = "fromString" /\ input.kind = "string"
    /\ input.nums[1] # <<>>
    /\ ~includes(input.nums[1], "(")
    /\ ~REGEXP_HEX_test(input.nums[1])

\* C19: for a non-empty string without '(' that is not a well-formed hex
\* form, fromString looks the string up, exactly and case-sensitively, in the
\* named-color table: on a hit it returns the color of the entry's hex
\* value, on a miss it raises ReferenceError, and never RangeError.
C19_BareNameIsLookedUpInTable ==
    IsBareName =>
        IF input.nums[1] \in DOMAIN NAMES
        THEN call.res = fromString(NAMES[input.nums[1]])
        ELSE call.res = Raise("ReferenceError")

\* fromString has been called on an hsv, hsl or hwb function string, with or
\* without the legacy a suffix
IsHueFunctionCall ==
    /\ call.op = "fromString" /\ input.kind = "string"
    /\ includes(input.nums[1], "(")
    /\ input.nums[1][Len(input.nums[1])] = ")"
    /\ split(input.nums[1], "(")[1] \in HueNames \cup {name \o <<"a">> : name \in HueNames}

\* the second or the third channel of the string is a number without '%'
HasBareChannel ==
    LET channels == channelsOf(input.nums[1])
    IN  \/ xjs_Number_REGEXP_test(ChannelAt(channels, 2))
        \/ xjs_Number_REGEXP_test(ChannelAt(channels, 3))

\* C20: fromString raises RangeError for every hsv, hsl or hwb function
\* string whose second or third channel is a bare number without '%'
\* ('hsl(0,0,0)', 'hwb(0,0,0)'), whatever the form of the hue; it never
\* returns a Color for such a string.
C20_BareChannelOfHueFunctionIsRejected ==
    (IsHueFunctionCall /\ HasBareChannel) => call.res = Raise("RangeError")

\* 'hwb(0,0,0)' has been rejected, a string whose hue is a bare number too
C20_Witness ==
    /\ IsHueFunctionCall /\ HasBareChannel
    /\ input.nums[1] = <<"h", "w", "b", "(", "0", ",", "0", ",", "0", ")">>
    /\ call.res = Raise("RangeError")

\* the Angle that call returned is rational and lies in [0, 1) turn
InOneTurn(x) == x.pi = 0 /\ RLe(Zero, x.q) /\ RLt(x.q, One)

Receiver == prev.res

Between(lo, x, hi) == RLe(lo, x) /\ RLe(x, hi)

\* the five ordering constraints of a Meter
MeterIsOrdered(m) ==
    /\ RLe(m.min, m.max)
    /\ Between(m.min, m.val, m.max)
    /\ m.low # null => Between(m.min, m.low[1], m.max)
    /\ m.high # null =>
           Between(IF m.low # null THEN m.low[1] ELSE m.min, m.high[1], m.max)
    /\ m.opt # null => Between(m.min, m.opt[1], m.max)

\* C23: after constructing a Meter and after any sequence of assignments to
\* its properties, min <= max, min <= value <= max, min <= low <= max,
\* (low if set, else min) <= high <= max and min <= optimum <= max.
C23_MeterStaysOrdered ==
    call.op \in MeterOps => MeterIsOrdered(call.res)

\* C29: after constructing a MeterInt and after any sequence of assignments
\* to its properties, each getter (min, max, value, low, high, optimum)
\* equals the corresponding property of the underlying Meter, including the
\* properties the Meter clamped again.
C29_MeterIntMirrorsItsMeter ==
    call.op \in MeterOps =>
        /\ call.res.min  = call.res.METER.min
        /\ call.res.max  = call.res.METER.max
        /\ call.res.val  = call.res.METER.val
        /\ call.res.low  = call.res.METER.low
        /\ call.res.high = call.res.METER.high
        /\ call.res.opt  = call.res.METER.opt

RECURSIVE ReachesRoot(_, _, _)
\* following the parent links from node ends at a node without a parent
ReachesRoot(tree, node, steps) ==
    \/ tree.parent[node] = null
    \/ steps > 0 /\ ReachesRoot(tree, tree.parent[node][1], steps - 1)

\* no node is its own ancestor
Acyclic(tree) == \A n \in TreeNodes : ReachesRoot(tree, n, Cardinality(TreeNodes))

\* how many times x occurs in s
Occurrences(s, x) == Cardinality({i \in 1..Len(s) : s[i] = x})

\* the parent links and the children lists describe the same acyclic tree
WellFormed(tree) ==
    /\ Acyclic(tree)
    /\ \A p \in TreeNodes, n \in TreeNodes :
          Occurrences(tree.CHILDREN[p], n) = (IF tree.parent[n] = <<p>> THEN 1 ELSE 0)

\* C24: after any sequence of append, prepend, insertAfter, delete, clear
\* and remove calls the parent links are acyclic: following them from any
\* node reaches a root in finitely many steps.
C24_ParentLinksStayAcyclic ==
    call.op \in TreeOps => Acyclic(call.res)

\* C25: p.delete(x) for a node x that is not a direct child of p leaves p's
\* children list and x's parent exactly as they were.
C25_DeleteOfNonChildChangesNothing ==
    (/\ call.op = "delete"
     /\ WellFormed(prev.res)
     /\ \A i \in 1..Len(call.args[1]) :
           prev.res.parent[call.args[1][i]] # <<call.this>>) =>
        /\ call.res.CHILDREN[call.this] = prev.res.CHILDREN[call.this]
        /\ \A i \in 1..Len(call.args[1]) :
              call.res.parent[call.args[1][i]] = prev.res.parent[call.args[1][i]]

\* the child of the receiver that an insertAfter call named
ReferenceNode ==
    IF call.args[2].kind = "node" THEN call.args[2].v
    ELSE prev.res.CHILDREN[call.this][call.args[2].v + 1]

\* the reference of the insertAfter call is a child of the receiver, or the
\* index of one, in a well-formed tree, and the inserted nodes are neither
\* the reference nor the receiver nor ancestors of the receiver
InsertsBesideChild ==
    /\ call.op = "insertAfter"
    /\ WellFormed(prev.res)
    /\ IF call.args[2].kind = "node"
       THEN prev.res.parent[call.args[2].v] = <<call.this>>
       ELSE call.args[2].v < Len(prev.res.CHILDREN[call.this])
    /\ \A i \in 1..Len(call.args[1]) :
          /\ call.args[1][i] # call.this
          /\ call.args[1][i] # ReferenceNode
          /\ has(prev.res, call.args[1][i], call.this) = "false"

\* C26: p.insertAfter(nodes, ref), for a child ref of p or the index of one,
\* makes the nodes children of p placed in the given order immediately after
\* ref in p's children list.
C26_InsertAfterPlacesNodesAfterReference ==
    InsertsBesideChild =>
        /\ call.end = "returns"
        /\ \A i \in 1..Len(call.args[1]) :
              call.res.parent[call.args[1][i]] = <<call.this>>
        /\ indexOf(call.res.CHILDREN[call.this], ReferenceNode) + 1 + Len(call.args[1])
              <= Len(call.res.CHILDREN[call.this])
        /\ SubSeq(call.res.CHILDREN[call.this],
                  indexOf(call.res.CHILDREN[call.this], ReferenceNode) + 2,
                  indexOf(call.res.CHILDREN[call.this], ReferenceNode) + 1
                      + Len(call.args[1]))
              = call.args[1]

RECURSIVE ChildrenOfEach(_, _)
\* the children of the nodes of a level, in sibling order
ChildrenOfEach(tree, level) ==
    IF level = <<>> THEN <<>>
    ELSE tree.CHILDREN[Head(level)] \o ChildrenOfEach(tree, Tail(level))

RECURSIVE LevelsFrom(_, _)
\* a level followed by all deeper levels
LevelsFrom(tree, level) ==
    IF level = <<>> THEN <<>>
    ELSE level \o LevelsFrom(tree, ChildrenOfEach(tree, level))

\* C28: for every tree shape, also with leaves at different depths,
\* TreeNodeBreadth.nodes() returns, without raising, every node of the tree
\* exactly once, by increasing depth and in sibling order within a depth.
C28_BreadthFirstNodesOfEveryTree ==
    call.op = "nodes" =>
        /\ call.res.ok
        /\ call.res.v = LevelsFrom(input.tree, <<call.this>>)

\* C30: whenever two channels tie for max with chroma not 0, the hue
\* formulas of the two tied channels give the same hue (red = green 1/6 turn,
\* green = blue 3/6 turn, blue = red 5/6 turn), which is the hue returned
\* whichever of the two is selected.
C30_TiedChannelsGiveTheSameHue ==
    (call.op \in HueAccessors /\ Color_CHROMA(call.recv) # Zero) =>
        /\ (call.recv.red = Color_MAX(call.recv)
                /\ call.recv.green = Color_MAX(call.recv)) =>
               /\ hsvHue_ofRed(call.recv) = Rat(1, 6)
               /\ hsvHue_ofGreen(call.recv) = Rat(1, 6)
               /\ call.res = Return(Angle_new(Rat(1, 6)))
        /\ (call.recv.green = Color_MAX(call.recv)
                /\ call.recv.blue = Color_MAX(call.recv)) =>
               /\ hsvHue_ofGreen(call.recv) = Rat(3, 6)
               /\ hsvHue_ofBlue(call.recv) = Rat(3, 6)
               /\ call.res = Return(Angle_new(Rat(3, 6)))
        /\ (call.recv.blue = Color_MAX(call.recv)
                /\ call.recv.red = Color_MAX(call.recv)) =>
               /\ hsvHue_ofBlue(call.recv) = Rat(5, 6)
               /\ hsvHue_ofRed(call.recv) = Rat(5, 6)
               /\ call.res = Return(Angle_new(Rat(5, 6)))

\* the hsl hue of a color whose blue and red are both max, below 1, and whose
\* green is less
C30_Witness ==
    /\ call.op = "hslHue"
    /\ call.recv.blue = call.recv.red
    /\ RLt(call.recv.green, call.recv.red) /\ RLt(call.recv.red, One)
    /\ call.res = Return(Rat(5, 6))

====
